---- MODULE Spec2Model ----
(***************************************************************************)
(* Deployment orchestrator of ocs-ci (ocs_ci/deployment/deployment.py) and *)
(* the multicluster sanity loop of tests/ecosystem/deployment.             *)
(*                                                                         *)
(* Every function of the source is a process with a program counter        *)
(* pc[f]; a caller starts a callee by moving pc[callee] from "idle" to     *)
(* "start" and resumes when the callee is "returned" or "raised".  The     *)
(* variable entry names the function the behaviour enters from outside.    *)
(***************************************************************************)
EXTENDS Integers, Sequences, FiniteSets, TLC

\* ------------------------------------------------------------------ bounds
MaxClusters == 3
\* how many times the deploy phase is run on one cluster
MaxCalls == 3
\* how many nodes the external cluster has at most
MaxNodes == 3
\* how many data keys the Ramen config map has besides the Ramen configuration
MaxOtherKeys == 2

\* ------------------------------------------------------------ program constants
\* constants.RBD_SIDECAR_COUNT, the expected number of csi provisioner containers
RBD_SIDECAR_COUNT == 8
\* validate_csi_sidecar: timeout = 10
SIDECAR_POLLS == 10
\* deploy_ocs: ceph_health_check(tries=30) and the retry with tries=60
HEALTH_TRIES == 30
HEALTH_TRIES_RETRY == 60

VARIABLES
    entry,          \* the function entered from outside in this behaviour
    pc,             \* pc[f]: position of function f
    exc,            \* exc[f]: the exception f raised, "none" otherwise
    nclusters,      \* config.nclusters
    multicluster,   \* config.multicluster
    acm_index,      \* config.get_acm_index()
    cur_index,      \* config.cur_index
    base_index,     \* the index config.reset_ctx() returns to
    loops,          \* per fan-out loop: index before it, index when left, status
    flags,          \* config.ENV_DATA / DEPLOYMENT / REPORTING flags read by the run
    run,            \* config.RUN["is_ocp_deployment_failed"], is_cluster_running()
    resources,      \* resources[c]: kinds of resources present on cluster c
    registry,       \* registry[c]: image registry management state of cluster c
    log,            \* commands and observations issued so far, with their context
    i,              \* loop variable of do_deploy_ocs
    it,             \* position in the cluster list of the running DR / sanity loop
    restore_ctx_index, \* test_deployment: restore_ctx_index
    timeout,        \* validate_csi_sidecar: timeout
    polls,          \* validate_csi_sidecar: polls made, last count, polls that matched
    health,         \* deploy_ocs: health checks run so far (tries of each)
    ocs_call,       \* deploy_ocs: what the call found when it started
    pods,           \* token-exchange-agent pod phase observed per cluster
    dr,             \* DR deployment inputs and state
    plan,           \* deploy_ocs_via_operator: the flags and observations composed from
    cluster_data,   \* deploy_ocs_via_operator: the StorageCluster document
    ccs,            \* create_catalog_source: its argument, the settings it reads,
                    \* the image of the catalog source it applied
    ecc,            \* get_external_cluster_client: the node roles read and
                    \* the outcome of the call
    lt,             \* label_and_taint_nodes: the nodes and settings read, the
                    \* nodes labelled and tainted
    components,     \* config.COMPONENTS: components[c] is the flag disable_<c>
    rcm,            \* update_config_map_commit: the config map passed in and
                    \* the document written for "oc apply"
    xm,             \* external mode: the settings deploy_with_external_mode
                    \* reads, what the exporter script returns, and
                    \* config.EXTERNAL_MODE as written so far
    spm             \* setup_persistent_monitoring: attempts made by the retry
                    \* decorator and how each of them ended

vars == <<entry, pc, exc, nclusters, multicluster, acm_index, cur_index,
          base_index, loops, flags, run, resources, registry, log, i, it,
          restore_ctx_index, timeout, polls, health, ocs_call, pods, dr,
          plan, cluster_data, ccs, ecc, lt, components, rcm, xm, spm>>

\* groups of variables, for UNCHANGED
env == <<entry, nclusters, multicluster, acm_index, base_index, flags>>
cfg == <<env, run>>
cluster == <<resources, registry>>
drv == <<it, restore_ctx_index, timeout, polls, pods, dr>>
ocsv == <<health, ocs_call>>
cmp == <<plan, cluster_data>>
extm == <<xm, spm>>
ext == <<ccs, ecc, lt, components, rcm, extm>>
calls == <<ccs, ecc, lt, rcm, extm>>
core == <<cfg, cluster, drv, ocsv, cmp, cur_index, loops, i>>

Procs == {"do_deploy_ocs", "deploy_ocs", "deploy_ocs_via_operator",
          "subscribe_ocs", "test_deployment", "dr_deploy",
          "configure_mirror_peer", "validate_mirror_peer",
          "validate_csi_sidecar", "deploy_dr_policy", "do_deploy_ocp",
          "do_deploy_rdr", "deploy_cluster", "destroy_cluster",
          "create_catalog_source", "get_external_cluster_client",
          "label_and_taint_nodes", "update_config_map_commit",
          "get_external_cluster_details", "deploy_with_external_mode",
          "setup_persistent_monitoring"}

Loops == {"do_deploy_ocs", "verification", "configure_mirror_peer",
          "validate_mirror_peer", "test_deployment"}

NoIndex == 0 - 1

Clusters == 0 .. (nclusters - 1)

\* ----------------------------------------------------------- small helpers
Goto(f, l) == pc' = [pc EXCEPT ![f] = l]

Goto2(f, l, g, m) == pc' = [pc EXCEPT ![f] = l, ![g] = m]

Raise(f, e) ==
    /\ pc' = [pc EXCEPT ![f] = "raised"]
    /\ exc' = [exc EXCEPT ![f] = e]

\* the callee g ended; the caller f takes its result and g is idle again
Finished(g) == pc[g] \in {"returned", "raised"}

Emit(ev) == log' = Append(log, [ev |-> ev, ctx |-> cur_index])

\* ghost: a fan-out loop is entered / left
LoopEnter(l) == [loops EXCEPT ![l] = [before |-> cur_index, after |-> NoIndex,
                                      status |-> "in"]]

LoopLeave(ls, l, idx, st) == [ls EXCEPT ![l] = [before |-> ls[l].before,
                                               after |-> idx, status |-> st]]

\* get_non_acm_cluster_config(): the non-hub clusters in list order
RECURSIVE NonAcmFrom(_)
NonAcmFrom(k) ==
    IF k >= nclusters THEN <<>>
    ELSE IF k = acm_index THEN NonAcmFrom(k + 1)
    ELSE <<k>> \o NonAcmFrom(k + 1)

NonAcmClusters == NonAcmFrom(0)

\* range(config.multicluster): config.multicluster is a bool, and a Python
\* bool is the integer 0 or 1
RangeMulticluster == IF multicluster THEN 1 ELSE 0

\* run_cmd_multicluster(cmd, skip_index): one event per cluster the command
\* is sent to; the context is the same after the call as before it
RECURSIVE FanOut(_, _, _)
FanOut(ev, skip_index, k) ==
    IF k >= nclusters THEN <<>>
    ELSE IF k = skip_index THEN FanOut(ev, skip_index, k + 1)
    ELSE << [ev |-> ev, ctx |-> k] >> \o FanOut(ev, skip_index, k + 1)

\* --------------------------------------------- Cluster Context Registry
\* config.switch_ctx(index): the current index becomes index
switch_ctx(index) == index

\* config.reset_ctx(): back to the index that was active before the fan-out
reset_ctx == base_index

\* config.switch_acm_ctx(): switch_ctx(get_acm_index())
switch_acm_ctx == switch_ctx(acm_index)

\* ------------------------------------------------ Deployment.do_deploy_ocs
\* mutant: the handler re-raises without collecting logs
DoDeployOcsHandler_NoGather ==
    /\ Raise("do_deploy_ocs", exc["deploy_ocs"])
    /\ loops' = LoopLeave(loops, "do_deploy_ocs", cur_index, "raised")
    /\ UNCHANGED <<cur_index, i, log>>

\* except-handler of the per-cluster try: log, collect logs, re-raise.
\* Nothing in it touches the registry.
DoDeployOcsHandler ==
    /\ Raise("do_deploy_ocs", exc["deploy_ocs"])
    /\ loops' = LoopLeave(loops, "do_deploy_ocs", cur_index, "raised")
    /\ log' = IF flags.gather_on_deploy_failure
              THEN log \o << [ev |-> "collect_logs_ocp", ctx |-> cur_index],
                             [ev |-> "collect_logs_ocs", ctx |-> cur_index] >>
              ELSE log
    /\ UNCHANGED <<cur_index, i>>

\* mutant: no index is left out
SkipsHub_Never(index) == FALSE

\* lines 206-207: the index of the ACM hub is passed over in a multicluster run
SkipsHub(index) == multicluster /\ acm_index = index

DDO_Start ==
    /\ pc["do_deploy_ocs"] = "start"
    /\ IF flags.skip_ocs_deployment
       THEN /\ Goto("do_deploy_ocs", "returned")
            /\ UNCHANGED <<i, loops>>
       ELSE /\ Goto("do_deploy_ocs", "loop")
            /\ i' = 0
            /\ loops' = LoopEnter("do_deploy_ocs")
    /\ UNCHANGED <<ext, cfg, cluster, drv, ocsv, cmp, exc, cur_index, log>>

DDO_Loop ==
    /\ pc["do_deploy_ocs"] = "loop"
    /\ IF i >= nclusters
       THEN \* line 222: config.reset_ctx()
            /\ cur_index' = reset_ctx
            /\ loops' = LoopLeave(loops, "do_deploy_ocs", reset_ctx, "completed")
            /\ Goto("do_deploy_ocs", "after_reset")
            /\ UNCHANGED <<i, log>>
       ELSE IF SkipsHub(i)
       THEN /\ i' = i + 1
            /\ UNCHANGED <<pc, cur_index, loops, log>>
       ELSE /\ cur_index' = switch_ctx(i)
            /\ Goto2("do_deploy_ocs", "call_deploy_ocs", "deploy_ocs", "start")
            /\ log' = Append(log, [ev |-> "deploy_ocs", ctx |-> switch_ctx(i)])
            /\ UNCHANGED <<i, loops>>
    /\ UNCHANGED <<ext, cfg, cluster, drv, ocsv, cmp, exc>>

DDO_Return ==
    /\ pc["do_deploy_ocs"] = "call_deploy_ocs"
    /\ Finished("deploy_ocs")
    /\ IF pc["deploy_ocs"] = "returned"
       THEN /\ Goto2("do_deploy_ocs", "loop", "deploy_ocs", "idle")
            /\ i' = i + 1
            /\ UNCHANGED <<exc, loops, log, cur_index>>
       ELSE DoDeployOcsHandler
    \* the callee's locals are gone
    /\ health' = <<>>
    /\ UNCHANGED <<ext, cfg, cluster, drv, ocs_call, cmp>>

DDO_AfterReset ==
    /\ pc["do_deploy_ocs"] = "after_reset"
    /\ IF multicluster
       THEN /\ Goto("do_deploy_ocs", "verify_loop")
            /\ i' = 0
            /\ loops' = LoopEnter("verification")
       ELSE /\ Goto("do_deploy_ocs", "returned")
            /\ UNCHANGED <<i, loops>>
    /\ UNCHANGED <<ext, cfg, cluster, drv, ocsv, cmp, exc, cur_index, log>>

\* lines 226-235; ocs_install_verification either passes or raises
DDO_VerifyLoop ==
    /\ pc["do_deploy_ocs"] = "verify_loop"
    /\ IF i >= RangeMulticluster
       THEN /\ cur_index' = reset_ctx
            /\ loops' = LoopLeave(loops, "verification", reset_ctx, "completed")
            /\ Goto("do_deploy_ocs", "returned")
            /\ UNCHANGED <<i, log, exc>>
       ELSE IF acm_index = i
       THEN /\ i' = i + 1
            /\ UNCHANGED <<pc, cur_index, loops, log, exc>>
       ELSE /\ cur_index' = switch_ctx(i)
            /\ log' = Append(log, [ev |-> "ocs_install_verification",
                                   ctx |-> switch_ctx(i)])
            /\ \/ /\ i' = i + 1
                  /\ UNCHANGED <<pc, loops, exc>>
               \/ /\ Raise("do_deploy_ocs", "AssertionError")
                  /\ loops' = LoopLeave(loops, "verification", switch_ctx(i),
                                        "raised")
                  /\ UNCHANGED i
    /\ UNCHANGED <<ext, cfg, cluster, drv, ocsv, cmp>>

\* --------------------------------------------------- Deployment.subscribe_ocs
\* mutant: approval whenever an approval mode is configured
NeedsApproval_AnyMode(subscription_plan_approval) ==
    subscription_plan_approval # "None"

\* line 517: the install plan is approved only for the literal "Manual"
NeedsApproval(subscription_plan_approval) == subscription_plan_approval = "Manual"

\* lines 466-488: package manifest wait; raises on timeout
SUB_Start ==
    /\ pc["subscribe_ocs"] = "start"
    /\ \/ /\ Goto("subscribe_ocs", "create")
          /\ UNCHANGED exc
       \/ Raise("subscribe_ocs", "ResourceWrongStatusException")
    /\ UNCHANGED <<ext, cfg, cluster, drv, ocsv, cmp, cur_index, log, loops, i>>

\* lines 489-515: the subscription manifest is built and created
SUB_Create ==
    /\ pc["subscribe_ocs"] = "create"
    /\ Goto("subscribe_ocs", "wait_subscription")
    /\ resources' = [resources EXCEPT ![cur_index] = @ \cup {"Subscription"}]
    /\ Emit("create_subscription")
    /\ UNCHANGED <<ext, cfg, registry, drv, ocsv, cmp, cur_index, exc, loops, i>>

\* line 516: wait_for_subscription; TimeoutSampler raises when it expires
SUB_WaitSubscription ==
    /\ pc["subscribe_ocs"] = "wait_subscription"
    /\ \/ /\ Goto("subscribe_ocs", "approval")
          /\ Emit("subscription_observed")
          /\ UNCHANGED exc
       \/ /\ Raise("subscribe_ocs", "TimeoutExpiredError")
          /\ UNCHANGED log
    /\ UNCHANGED <<ext, cfg, cluster, drv, ocsv, cmp, cur_index, loops, i>>

\* lines 517-521: wait_for_install_plan_and_approve, then the CSV is seen Installing
SUB_Approval ==
    /\ pc["subscribe_ocs"] = "approval"
    /\ IF NeedsApproval(flags.subscription_plan_approval)
       THEN \/ /\ Goto("subscribe_ocs", "wait_csv")
               /\ Emit("approve_install_plan")
               /\ UNCHANGED exc
            \/ /\ Raise("subscribe_ocs", "TimeoutExpiredError")
               /\ UNCHANGED log
            \/ /\ Raise("subscribe_ocs", "ResourceWrongStatusException")
               /\ Emit("approve_install_plan")
       ELSE /\ Goto("subscribe_ocs", "wait_csv")
            /\ UNCHANGED <<exc, log>>
    /\ UNCHANGED <<ext, cfg, cluster, drv, ocsv, cmp, cur_index, loops, i>>

\* lines 522-524: wait_for_csv
SUB_WaitCsv ==
    /\ pc["subscribe_ocs"] = "wait_csv"
    /\ Emit("wait_for_csv")
    /\ \/ /\ Goto("subscribe_ocs", "returned")
          /\ UNCHANGED exc
       \/ Raise("subscribe_ocs", "TimeoutExpiredError")
    /\ UNCHANGED <<ext, cfg, cluster, drv, ocsv, cmp, cur_index, loops, i>>

\* ----------------------------------- Deployment.deploy_ocs_via_operator
\* semantic versions as major * 100 + minor
VERSION_4_5 == 405
VERSION_4_6 == 406
VERSION_4_7 == 407
VERSION_4_9 == 409
VERSION_4_10 == 410

\* a nested document is a function from key paths to values; a key that is
\* not in the domain is absent from the document
Put(doc, k, v) == [x \in (DOMAIN doc) \cup {k} |-> IF x = k THEN v ELSE doc[x]]

Has(doc, k) == k \in DOMAIN doc

DS0 == "spec.storageDeviceSets[0]"

\* templating.load_yaml(constants.STORAGE_CLUSTER_YAML)
BaseTemplate ==
    [k \in {"metadata.name", "spec.storageDeviceSets[0].count",
            "spec.storageDeviceSets[0].replica",
            "spec.storageDeviceSets[0].portable",
            "spec.storageDeviceSets[0].name",
            "spec.storageDeviceSets[0].storage",
            "spec.storageDeviceSets[0].storageClassName"} |->
        CASE k = "metadata.name" -> "ocs-storagecluster"
          [] k = "spec.storageDeviceSets[0].count" -> 1
          [] k = "spec.storageDeviceSets[0].replica" -> 3
          [] k = "spec.storageDeviceSets[0].portable" -> TRUE
          [] k = "spec.storageDeviceSets[0].name" -> "ocs-deviceset"
          [] k = "spec.storageDeviceSets[0].storage" -> <<"template">>
          [] OTHER -> "template-sc"]

\* Deployment.DEFAULT_STORAGECLASS of the platform subclass (None in the base)
DEFAULT_STORAGECLASS(f) ==
    CASE f.platform = "aws" -> "gp2"
      [] f.platform = "vsphere" -> "thin"
      [] OTHER -> "None"

\* mutant: the arbiter overlay leaves the replica count of the template
ArbiterOverlay_TemplateReplica(cd, f) ==
    IF f.arbiter_deployment
    THEN Put(Put(cd, "spec.arbiter.enable", TRUE),
             "spec.nodeTopologies.arbiterLocation", "arbiter-zone")
    ELSE cd

\* lines 809-816
ArbiterOverlay(cd, f) ==
    IF f.arbiter_deployment
    THEN Put(Put(Put(cd, "spec.arbiter.enable", TRUE),
                 "spec.nodeTopologies.arbiterLocation", "arbiter-zone"),
             "spec.storageDeviceSets[0].replica", 4)
    ELSE cd

\* mutant: the arbiter exclusion is forgotten
FlexibleScalingCond_NoArbiter(f) ==
    /\ f.local_storage
    /\ f.ocs_version >= VERSION_4_7
    /\ f.zone_num < 3

\* lines 827-832: the condition under which flexible scaling is switched on
FlexibleScalingCond(f) ==
    /\ f.local_storage
    /\ f.ocs_version >= VERSION_4_7
    /\ f.zone_num < 3
    /\ ~ f.arbiter_deployment

\* lines 827-836
FlexibleScalingOverlay(cd, f) ==
    IF FlexibleScalingCond(f)
    THEN Put(Put(Put(cd, "spec.flexibleScaling", TRUE),
                 "spec.storageDeviceSets[0].count", 3),
             "spec.storageDeviceSets[0].replica", 1)
    ELSE cd

\* Python's order on strings of digits: lexicographic
RECURSIVE StrLess(_, _)
StrLess(a, b) ==
    IF a = <<>> THEN b # <<>>
    ELSE IF b = <<>> THEN FALSE
    ELSE IF Head(a) # Head(b) THEN Head(a) < Head(b)
    ELSE StrLess(Tail(a), Tail(b))

\* pv_size_list.sort(); pv_size_list[0]
SortedFirst(l) ==
    CHOOSE x \in {l[k] : k \in DOMAIN l} :
        \A y \in {l[k] : k \in DOMAIN l} : x = y \/ StrLess(x, y)

\* lines 838-856
DeviceSizeOverlay(cd, f) ==
    LET sized == IF f.platform = "baremetal"
                 THEN Put(cd, "spec.storageDeviceSets[0].storage",
                          SortedFirst(f.pv_size_list))
                 ELSE Put(cd, "spec.storageDeviceSets[0].storage",
                          <<f.device_size, "Gi">>)
    IN IF DEFAULT_STORAGECLASS(f) # "None"
       THEN Put(sized, "spec.storageDeviceSets[0].storageClassName",
                DEFAULT_STORAGECLASS(f))
       ELSE sized

\* mutant: the configured count is written before the AWS value
LsoOverlay_CountFirst(cd, f) ==
    IF f.local_storage
    THEN LET a == Put(Put(Put(Put(Put(cd,
                   "spec.manageNodes", FALSE),
                   "spec.monDataDirHostPath", "/var/lib/rook"),
                   "spec.storageDeviceSets[0].name", "ocs-deviceset-localblock"),
                   "spec.storageDeviceSets[0].portable", FALSE),
                   "spec.storageDeviceSets[0].storageClassName", "localblock")
             b == IF f.lsd_count # <<>>
                  THEN Put(a, "spec.storageDeviceSets[0].count", f.lsd_count[1])
                  ELSE a
         IN IF f.platform = "aws" /\ f.lso_type # "aws-ebs"
            THEN Put(b, "spec.storageDeviceSets[0].count", 2)
            ELSE b
    ELSE cd

\* lines 859-892
LsoOverlay(cd, f) ==
    IF f.local_storage
    THEN LET a == Put(Put(Put(Put(Put(cd,
                   "spec.manageNodes", FALSE),
                   "spec.monDataDirHostPath", "/var/lib/rook"),
                   "spec.storageDeviceSets[0].name", "ocs-deviceset-localblock"),
                   "spec.storageDeviceSets[0].portable", FALSE),
                   "spec.storageDeviceSets[0].storageClassName", "localblock")
             b == IF f.platform = "aws" /\ f.lso_type # "aws-ebs"
                  THEN Put(a, "spec.storageDeviceSets[0].count", 2)
                  ELSE a
         IN IF f.lsd_count # <<>>
            THEN Put(b, "spec.storageDeviceSets[0].count", f.lsd_count[1])
            ELSE b
    ELSE cd

\* lines 959-975
EncryptionOverlay(cd, f) ==
    IF f.encryption_at_rest
    THEN IF f.ocs_version >= VERSION_4_10
         THEN Put(cd, "spec.encryption.clusterWide", TRUE)
         ELSE Put(cd, "spec.encryption.enable", TRUE)
    ELSE cd

\* constants.OCS_COMPONENTS_MAP
OCS_COMPONENTS_MAP ==
    [noobaa |-> "noobaa", cephfs |-> "cephFilesystems",
     blockpools |-> "cephBlockPools"]

ComponentKeys == DOMAIN OCS_COMPONENTS_MAP

\* lines 778-781: config.COMPONENTS after the disable_components of the run
\* were written into it
Disabled(comps, disable_components) ==
    [c \in ComponentKeys |-> comps[c] \/ c \in disable_components]

\* lines 785-806: reconcileStrategy "ignore" for every disabled component
ComponentsOverlay(cd, comps) ==
    LET a == IF comps["noobaa"]
             THEN Put(cd, "spec.multiCloudGateway.reconcileStrategy", "ignore")
             ELSE cd
        managed == {c \in ComponentKeys \ {"noobaa"} : comps[c]}
    IN IF managed # {}
       THEN Put(a, "spec.managedResources",
                [n \in {OCS_COMPONENTS_MAP[c] : c \in managed} |->
                     [reconcileStrategy |-> "ignore"]])
       ELSE a

\* none_resources
NoneResources == [Requests |-> "None", Limits |-> "None"]

\* lines 879-882
AwsI3Resources ==
    [limits |-> [cpu |-> "2", memory |-> "5Gi"],
     requests |-> [cpu |-> "1", memory |-> "5Gi"]]

\* lines 914-917
EndpointResources ==
    [limits |-> [cpu |-> "1", memory |-> "500Mi"],
     requests |-> [cpu |-> "1", memory |-> "500Mi"]]

\* lines 923-926
MdsPreset ==
    [limits |-> [cpu |-> "3", memory |-> "8Gi"],
     requests |-> [cpu |-> "1", memory |-> "8Gi"]]

\* lines 929-936
NoobaaPreset ==
    [limits |-> [cpu |-> "2", memory |-> "8Gi"],
     requests |-> [cpu |-> "1", memory |-> "8Gi"]]

\* constants.AWS_LSO_WORKER_INSTANCE
AWS_LSO_WORKER_INSTANCE == "i3en.2xlarge"

\* lines 874-882: the device-set limits for AWS i3 workers on LSO
AwsI3Overlay(cd, f) ==
    IF /\ f.local_storage
       /\ f.ocs_version >= VERSION_4_5
       /\ f.worker_instance_type = AWS_LSO_WORKER_INSTANCE
    THEN Put(cd, "spec.storageDeviceSets[0].resources", AwsI3Resources)
    ELSE cd

\* lines 900-907
LowerResourceNames == {"mon", "mds", "rgw", "mgr", "noobaa-core", "noobaa-db"}

\* mutant: the override leaves a device-set preset in place
LowerRequirementsOverlay_KeepPreset(cd, f) ==
    Put(IF Has(cd, "spec.storageDeviceSets[0].resources") THEN cd
        ELSE Put(cd, "spec.storageDeviceSets[0].resources", NoneResources),
        "spec.resources",
        [r \in LowerResourceNames |-> NoneResources])

\* lines 897-917: allow_lower_instance_requirements
LowerRequirementsOverlay(cd, f) ==
    LET names == LowerResourceNames
                 \cup (IF f.ocs_version >= VERSION_4_5
                       THEN {"noobaa-endpoint"} ELSE {})
    IN Put(Put(cd, "spec.storageDeviceSets[0].resources", NoneResources),
           "spec.resources",
           [r \in names |-> IF r = "noobaa-endpoint" THEN EndpointResources
                            ELSE NoneResources])

\* lines 918-937: the presets for LSO on AWS
PresetOverlay(cd, f) ==
    IF f.local_storage /\ f.platform = "aws"
    THEN Put(cd, "spec.resources",
             [r \in {"mds"} \cup (IF f.ocs_version < VERSION_4_5
                                  THEN {"noobaa-core", "noobaa-db"} ELSE {}) |->
                 IF r = "mds" THEN MdsPreset ELSE NoobaaPreset])
    ELSE cd

\* lines 894-937
ResourcesOverlay(cd, f) ==
    IF f.allow_lower_instance_requirements
    THEN LowerRequirementsOverlay(cd, f)
    ELSE PresetOverlay(cd, f)

\* mutant: the version gate of encryption at rest is lost
EncryptionUnsupported_Never(f) == FALSE

\* lines 959-963
EncryptionUnsupported(f) ==
    f.encryption_at_rest /\ f.ocs_version < VERSION_4_6

\* lines 775-988: the StorageCluster document built from the flags
\* lines 977-981: with ceph_debug, spec.managedResources is assigned anew
CephDebugOverlay(cd, f) ==
    IF f.ceph_debug
    THEN Put(cd, "spec.managedResources",
             [n \in {"cephConfig"} |-> [reconcileStrategy |-> "ignore"]])
    ELSE cd

Compose(f, comps) ==
    CephDebugOverlay(
      EncryptionOverlay(
        ResourcesOverlay(
          AwsI3Overlay(
            LsoOverlay(
              DeviceSizeOverlay(
                FlexibleScalingOverlay(
                  ArbiterOverlay(
                    ComponentsOverlay(BaseTemplate, comps), f), f), f), f), f),
          f), f), f)

\* defaults.DEVICE_SIZE
DEVICE_SIZE == 512

Platforms == {"aws", "vsphere", "baremetal", "ibm_cloud"}

Versions == {VERSION_4_5, VERSION_4_6, VERSION_4_7, VERSION_4_9, VERSION_4_10}

\* PV sizes as strings of digits
PvSizeLists == { << <<5>> >>, << <<1, 0>>, <<5>> >>, << <<5>>, <<1, 0>>, <<2, 0>> >> }

DefaultPlan ==
    [platform |-> "aws", arbiter_deployment |-> FALSE, local_storage |-> FALSE,
     ocs_version |-> VERSION_4_10, zone_num |-> 3, lso_type |-> "aws-ebs",
     lsd_count |-> <<>>, device_size |-> DEVICE_SIZE,
     encryption_at_rest |-> FALSE, pv_size_list |-> << <<5>> >>,
     allow_lower_instance_requirements |-> FALSE,
     worker_instance_type |-> "m5.4xlarge", disable_components |-> {},
     ceph_debug |-> FALSE]

\* device sizes a run may configure
DeviceSizes == {DEVICE_SIZE, 2048}

\* plans that vary the device size
SizePlans ==
    {[DefaultPlan EXCEPT !.arbiter_deployment = a, !.local_storage = l,
                         !.device_size = d, !.zone_num = z,
                         !.platform = flags.platform] :
        a \in BOOLEAN, l \in BOOLEAN, d \in DeviceSizes, z \in {2, 3}}

\* plans that vary what the resource overrides and presets depend on
ResourcePlans ==
    {[DefaultPlan EXCEPT !.local_storage = l, !.ocs_version = v,
                         !.allow_lower_instance_requirements = al,
                         !.worker_instance_type = w,
                         !.platform = flags.platform] :
        l \in BOOLEAN, v \in {VERSION_4_5 - 1, VERSION_4_5, VERSION_4_10},
        al \in BOOLEAN, w \in {"m5.4xlarge", AWS_LSO_WORKER_INSTANCE}}

\* plans that disable components
ComponentPlans ==
    {[DefaultPlan EXCEPT !.disable_components = dc, !.ceph_debug = dbg,
                         !.platform = flags.platform] :
        dc \in SUBSET ComponentKeys, dbg \in BOOLEAN}

\* the flag combinations and observations a composition may start from; only
\* a behaviour entered at deploy_ocs_via_operator ranges over all of them
Plans ==
    IF entry = "deploy_ocs_via_operator"
    THEN SizePlans \cup ResourcePlans \cup ComponentPlans \cup
         {f \in {[DefaultPlan EXCEPT !.arbiter_deployment = a,
                       !.local_storage = l, !.ocs_version = v, !.zone_num = z,
                       !.lso_type = t, !.lsd_count = n,
                       !.encryption_at_rest = en, !.pv_size_list = pv,
                       !.platform = flags.platform] :
                   a \in BOOLEAN, l \in BOOLEAN, v \in Versions, z \in 1 .. 3,
                   t \in {"aws-ebs", "aws-i3"}, n \in {<<>>, <<1>>},
                   en \in BOOLEAN, pv \in PvSizeLists} :
             /\ (~ f.local_storage => f.lso_type = "aws-ebs" /\ f.lsd_count = <<>>)
             /\ (f.platform # "baremetal" => f.pv_size_list = << <<5>> >>)}
    ELSE {[DefaultPlan EXCEPT !.platform = flags.platform]}

Create(kinds) == resources' = [resources EXCEPT ![cur_index] = @ \cup kinds]

\* lines 610-675: node labelling, catalog source, namespace and operator group
VO_Start ==
    /\ pc["deploy_ocs_via_operator"] = "start"
    /\ \/ /\ Goto2("deploy_ocs_via_operator", "call_subscribe_ocs",
                   "subscribe_ocs", "start")
          /\ Create((IF flags.live_deployment THEN {} ELSE {"CatalogSource"})
                    \cup {"Namespace", "OperatorGroup"}
                    \cup (IF flags.platform = "ibm_cloud" THEN {"Secret"} ELSE {}))
          /\ UNCHANGED exc
       \/ /\ Raise("deploy_ocs_via_operator", "UnavailableResourceException")
          /\ UNCHANGED resources
    /\ UNCHANGED <<ext, cfg, registry, drv, ocsv, cmp, cur_index, log, loops, i>>

\* lines 676-773: subscribe_ocs returned; the operator CSVs are awaited
VO_Subscribed ==
    /\ pc["deploy_ocs_via_operator"] = "call_subscribe_ocs"
    /\ Finished("subscribe_ocs")
    /\ IF pc["subscribe_ocs"] = "raised"
       THEN /\ Raise("deploy_ocs_via_operator", exc["subscribe_ocs"])
            /\ UNCHANGED resources
       ELSE \/ /\ IF flags.mcg_only_deployment
                  THEN /\ Goto2("deploy_ocs_via_operator", "returned",
                                "subscribe_ocs", "idle")
                       /\ Create({"StorageSystem", "NooBaa"})
                  ELSE /\ Goto2("deploy_ocs_via_operator", "compose",
                                "subscribe_ocs", "idle")
                       /\ Create({"StorageSystem"})
               /\ UNCHANGED exc
            \/ /\ Raise("deploy_ocs_via_operator", "ResourceWrongStatusException")
               /\ UNCHANGED resources
    /\ UNCHANGED <<ext, cfg, registry, drv, ocsv, cmp, cur_index, log, loops, i>>

\* lines 775-993: the StorageCluster document is composed from the flags, the
\* zone count (get_az_count) and the PV sizes (get_pv_size) read here
VO_Compose ==
    /\ pc["deploy_ocs_via_operator"] = "compose"
    /\ \E p \in Plans :
         /\ plan' = p
         /\ components' = Disabled(components, p.disable_components)
         /\ IF EncryptionUnsupported(p)
            THEN /\ Raise("deploy_ocs_via_operator", "UnsupportedFeatureError")
                 /\ UNCHANGED cluster_data
            ELSE /\ Goto("deploy_ocs_via_operator", "create")
                 /\ cluster_data' = Compose(p, components')
                 /\ UNCHANGED exc
    /\ UNCHANGED <<calls, cfg, cluster, drv, ocsv, cur_index, log, loops, i>>

\* line 994: oc create of the StorageCluster; the operator then brings up
\* the CephCluster
VO_Create ==
    /\ pc["deploy_ocs_via_operator"] = "create"
    /\ \/ /\ Goto("deploy_ocs_via_operator", "returned")
          /\ Create({"StorageCluster", "CephCluster"})
          /\ Emit("create_storagecluster")
          /\ UNCHANGED exc
       \/ /\ Raise("deploy_ocs_via_operator", "CommandFailed")
          /\ UNCHANGED <<resources, log>>
    /\ UNCHANGED <<ext, cfg, registry, drv, ocsv, cmp, cur_index, loops, i>>

\* ------------------------------------------------------ Deployment.deploy_ocs
\* lines 1113-1115: set_registry_to_managed_state()
OCS_Start ==
    /\ pc["deploy_ocs"] = "start"
    /\ Goto("deploy_ocs", "check_ceph")
    /\ registry' = [registry EXCEPT ![cur_index] = "Managed"]
    /\ health' = <<>>
    /\ ocs_call' = [calls |-> ocs_call.calls + 1,
                    existed |-> "CephCluster" \in resources[cur_index],
                    resources |-> resources[cur_index],
                    registry |-> registry[cur_index]]
    /\ UNCHANGED <<ext, cfg, resources, drv, cmp, cur_index, exc, log, loops, i>>

\* mutant: the early return is lost
AfterCephCheck_NoReturn(found) == "install"

\* lines 1116-1121: where deploy_ocs goes on after looking for a CephCluster
AfterCephCheck(found) == IF found THEN "returned" ELSE "install"

OCS_CheckCeph ==
    /\ pc["deploy_ocs"] = "check_ceph"
    /\ Goto("deploy_ocs", AfterCephCheck("CephCluster" \in resources[cur_index]))
    /\ UNCHANGED <<ext, cfg, cluster, drv, ocsv, cmp, cur_index, exc, log, loops, i>>

\* lines 1124-1133
OCS_Install ==
    /\ pc["deploy_ocs"] = "install"
    /\ IF flags.external_mode
       THEN Goto("deploy_ocs", "external")
       ELSE Goto2("deploy_ocs", "call_via_operator",
                  "deploy_ocs_via_operator", "start")
    /\ UNCHANGED <<ext, cfg, cluster, drv, ocsv, cmp, cur_index, exc, log, loops, i>>

\* line 1131: deploy_with_external_mode (lines 1032-1092)
OCS_External ==
    /\ pc["deploy_ocs"] = "external"
    /\ \/ /\ Goto("deploy_ocs", "monitoring")
          /\ Create({"Namespace", "OperatorGroup", "Subscription", "Secret",
                     "StorageCluster", "CephCluster", "Toolbox"}
                    \cup (IF flags.live_deployment THEN {} ELSE {"CatalogSource"}))
          /\ UNCHANGED exc
       \/ /\ Raise("deploy_ocs", "CommandFailed")
          /\ UNCHANGED resources
    /\ UNCHANGED <<ext, cfg, registry, drv, ocsv, cmp, cur_index, log, loops, i>>

\* lines 1133-1136
OCS_ViaOperatorDone ==
    /\ pc["deploy_ocs"] = "call_via_operator"
    /\ Finished("deploy_ocs_via_operator")
    /\ IF pc["deploy_ocs_via_operator"] = "raised"
       THEN Raise("deploy_ocs", exc["deploy_ocs_via_operator"])
       ELSE /\ Goto2("deploy_ocs",
                     IF flags.mcg_only_deployment THEN "returned" ELSE "wait_pods",
                     "deploy_ocs_via_operator", "idle")
            /\ UNCHANGED exc
    /\ UNCHANGED <<ext, cfg, cluster, drv, ocsv, cmp, cur_index, log, loops, i>>

\* lines 1138-1179: mon, mgr, osd pods Running, toolbox created and Running
OCS_WaitPods ==
    /\ pc["deploy_ocs"] = "wait_pods"
    /\ \/ /\ Goto("deploy_ocs", "cephfs")
          /\ Create({"Toolbox"})
          /\ UNCHANGED exc
       \/ /\ Raise("deploy_ocs", "ResourceWrongStatusException")
          /\ UNCHANGED resources
    /\ UNCHANGED <<ext, cfg, registry, drv, ocsv, cmp, cur_index, log, loops, i>>

\* mutant: a failed MDS validation aborts the deployment
AfterMdsValidation_Abort(valid) == IF valid THEN "monitoring" ELSE "raised"

\* lines 1186-1190: both results of validate_cephfilesystem are only logged
AfterMdsValidation(valid) == "monitoring"

\* lines 1181-1190: a failed MDS validation is logged
OCS_CephFS ==
    /\ pc["deploy_ocs"] = "cephfs"
    /\ IF components["cephfs"]
       THEN /\ Goto("deploy_ocs", "monitoring")
            /\ UNCHANGED log
       ELSE \E valid \in BOOLEAN :
              /\ Emit(IF valid THEN "mds_ok" ELSE "mds_failed")
              /\ Goto("deploy_ocs", AfterMdsValidation(valid))
    /\ UNCHANGED <<ext, cfg, cluster, drv, ocsv, cmp, cur_index, exc, loops, i>>

\* lines 1192-1211: monitoring backend, registry backend, console plugin
OCS_Monitoring ==
    /\ pc["deploy_ocs"] = "monitoring"
    /\ \/ /\ Goto("deploy_ocs", "health")
          /\ log' = log
                \o (IF flags.monitoring # "none"
                    THEN << [ev |-> "monitoring", ctx |-> cur_index] >> ELSE <<>>)
                \o (IF ~ components["cephfs"]
                    THEN << [ev |-> "registry_backend", ctx |-> cur_index] >>
                    ELSE <<>>)
                \o << [ev |-> "console_plugin", ctx |-> cur_index] >>
          /\ UNCHANGED exc
       \/ /\ flags.monitoring = "persistent"
          /\ Raise("deploy_ocs", "CommandFailed")
          /\ UNCHANGED log
    /\ UNCHANGED <<ext, cfg, cluster, drv, ocsv, cmp, cur_index, loops, i>>

\* lines 1217-1220: where a failed first health check leads.  Only the
\* clock-skew signature is acted upon; the handler ends without re-raising.
HealthHandler(result) ==
    CASE result = "ok" -> "patch_sc"
      [] result = "clock_skew" -> "skew"
      [] OTHER -> "patch_sc"

\* mutant: the resync is done on every platform
NtpResync_Always(platform) == TRUE

\* line 1224: the NTP resync is done on vSphere only
NtpResync(platform) == platform = "vsphere"

\* line 1216: ceph_health_check(tries=30)
OCS_Health ==
    /\ pc["deploy_ocs"] = "health"
    /\ \E r \in {"ok", "clock_skew", "other"} :
          /\ health' = Append(health, [tries |-> HEALTH_TRIES, result |-> r])
          /\ Goto("deploy_ocs", HealthHandler(r))
    /\ UNCHANGED <<ext, cfg, cluster, drv, ocs_call, cmp, cur_index, exc, log, loops, i>>

\* lines 1220-1226: NTP resync, then assert ceph_health_check(tries=60)
OCS_Skew ==
    /\ pc["deploy_ocs"] = "skew"
    /\ IF NtpResync(flags.platform) THEN Emit("ntp_resync") ELSE UNCHANGED log
    /\ \E r \in {"ok", "clock_skew", "other"} :
          /\ health' = Append(health, [tries |-> HEALTH_TRIES_RETRY, result |-> r])
          /\ IF r = "ok"
             THEN /\ Goto("deploy_ocs", "patch_sc")
                  /\ UNCHANGED exc
             ELSE Raise("deploy_ocs", "CephHealthException")
    /\ UNCHANGED <<ext, cfg, cluster, drv, ocs_call, cmp, cur_index, loops, i>>

\* line 1229: patch_default_sc_to_non_default()
OCS_PatchSC ==
    /\ pc["deploy_ocs"] = "patch_sc"
    /\ Goto("deploy_ocs", "returned")
    /\ UNCHANGED <<ext, cfg, cluster, drv, ocsv, cmp, cur_index, exc, log, loops, i>>

\* the caller runs the storage-operator deploy phase again on the same cluster
OCS_CallAgain ==
    /\ entry = "deploy_ocs"
    /\ pc["deploy_ocs"] = "returned"
    /\ ocs_call.calls < MaxCalls
    /\ Goto("deploy_ocs", "start")
    /\ UNCHANGED <<ext, cfg, cluster, drv, ocsv, cmp, cur_index, exc, log, loops, i>>

\* ------------------------------------------- test_deployment (sanity loop)
\* lines 21-28
TD_Start ==
    /\ pc["test_deployment"] = "start"
    /\ IF flags.skip_ocs_deployment
       THEN /\ Goto("test_deployment", "returned")
            /\ UNCHANGED <<restore_ctx_index, it, loops, exc>>
       ELSE IF multicluster
       THEN /\ Goto("test_deployment", "loop")
            /\ restore_ctx_index' = cur_index
            /\ it' = 1
            /\ loops' = LoopEnter("test_deployment")
            /\ UNCHANGED exc
       ELSE \* lines 39-66: single cluster verification and sanity
            /\ \/ /\ Goto("test_deployment", "returned")
                  /\ UNCHANGED exc
               \/ Raise("test_deployment", "AssertionError")
            /\ UNCHANGED <<restore_ctx_index, it, loops>>
    /\ UNCHANGED <<ext, cfg, cluster, timeout, polls, pods, dr, ocsv, cmp, cur_index,
                   log, i>>

\* lines 29-37
TD_Loop ==
    /\ pc["test_deployment"] = "loop"
    /\ IF it > Len(NonAcmClusters)
       THEN /\ cur_index' = switch_ctx(restore_ctx_index)
            /\ loops' = LoopLeave(loops, "test_deployment",
                                  switch_ctx(restore_ctx_index), "completed")
            /\ Goto("test_deployment", "returned")
            /\ UNCHANGED <<it, exc, log>>
       ELSE /\ cur_index' = switch_ctx(NonAcmClusters[it])
            /\ log' = Append(log, [ev |-> "sanity",
                                   ctx |-> switch_ctx(NonAcmClusters[it])])
            /\ \/ /\ it' = it + 1
                  /\ UNCHANGED <<pc, exc, loops>>
               \/ /\ Raise("test_deployment", "ResourceWrongStatusException")
                  /\ loops' = LoopLeave(loops, "test_deployment",
                                        switch_ctx(NonAcmClusters[it]), "raised")
                  /\ UNCHANGED it
    /\ UNCHANGED <<ext, cfg, cluster, restore_ctx_index, timeout, polls, pods, dr,
                   ocsv, cmp, i>>

\* ------------------------------------- RBDDRDeployOps.validate_csi_sidecar
\* container counts the provisioner pods may report
SidecarCounts == {6, RBD_SIDECAR_COUNT, 9}

NoPolls == [n |-> 0, last |-> 0, matched |-> 0]

\* line 1734
CSI_Start ==
    /\ pc["validate_csi_sidecar"] = "start"
    /\ Goto("validate_csi_sidecar", "loop")
    /\ timeout' = SIDECAR_POLLS
    /\ polls' = NoPolls
    /\ UNCHANGED <<ext, cfg, cluster, it, restore_ctx_index, pods, dr, ocsv, cmp,
                   cur_index, exc, log, loops, i>>

\* mutant: the budget is decremented before the comparison
PollBody_DecrementFirst(out, t) ==
    IF RBD_SIDECAR_COUNT # out
    THEN [timeout |-> t - 1, break |-> FALSE]
    ELSE [timeout |-> t - 1, break |-> TRUE]

\* lines 1739-1743: what one poll of the loop body leaves in timeout, and
\* whether the loop is left by break
PollBody(out, t) ==
    IF RBD_SIDECAR_COUNT # out
    THEN [timeout |-> t - 1, break |-> FALSE]
    ELSE [timeout |-> t, break |-> TRUE]

\* lines 1735-1743: while timeout
CSI_Loop ==
    /\ pc["validate_csi_sidecar"] = "loop"
    /\ IF timeout = 0
       THEN /\ Goto("validate_csi_sidecar", "after")
            /\ UNCHANGED <<timeout, polls>>
       ELSE \E out \in SidecarCounts :
              /\ polls' = [n |-> polls.n + 1, last |-> out,
                            matched |-> polls.matched
                                + (IF out = RBD_SIDECAR_COUNT THEN 1 ELSE 0)]
              /\ timeout' = PollBody(out, timeout).timeout
              /\ IF PollBody(out, timeout).break
                 THEN Goto("validate_csi_sidecar", "after")
                 ELSE UNCHANGED pc
    /\ UNCHANGED <<ext, cfg, cluster, it, restore_ctx_index, pods, dr, ocsv, cmp,
                   cur_index, exc, log, loops, i>>

\* lines 1744-1745: if not timeout: raise
CSI_After ==
    /\ pc["validate_csi_sidecar"] = "after"
    /\ IF timeout = 0
       THEN Raise("validate_csi_sidecar", "RBDSideCarContainerException")
       ELSE /\ Goto("validate_csi_sidecar", "returned")
            /\ UNCHANGED exc
    /\ UNCHANGED <<ext, cfg, cluster, drv, ocsv, cmp, cur_index, log, loops, i>>

\* ------------------------------------- RBDDRDeployOps.validate_mirror_peer
\* lines 1760-1772: the mirror peer reaches ExchangedSecret or the wait raises
VMP_Start ==
    /\ pc["validate_mirror_peer"] = "start"
    /\ \/ /\ Goto("validate_mirror_peer", "loop")
          /\ Emit("mirror_peer_ExchangedSecret")
          /\ it' = 0
          /\ loops' = LoopEnter("validate_mirror_peer")
          /\ UNCHANGED exc
       \/ /\ Raise("validate_mirror_peer", "ResourceWrongStatusException")
          /\ UNCHANGED <<log, it, loops>>
    /\ UNCHANGED <<ext, cfg, cluster, restore_ctx_index, timeout, polls, pods, dr,
                   ocsv, cmp, cur_index, i>>

\* lines 1788-1792: the exception the function raises for a pod phase.  The
\* ResourceWrongStatusException is constructed and dropped: there is no raise.
PodStatusCheck(pod_status) == "none"

\* lines 1777-1794
VMP_Loop ==
    /\ pc["validate_mirror_peer"] = "loop"
    /\ IF it >= nclusters
       THEN /\ cur_index' = switch_acm_ctx
            /\ loops' = LoopLeave(loops, "validate_mirror_peer", switch_acm_ctx,
                                  "completed")
            /\ Goto("validate_mirror_peer", "returned")
            /\ UNCHANGED <<it, pods, exc, log>>
       ELSE IF it = acm_index
       THEN /\ it' = it + 1
            /\ UNCHANGED <<pc, cur_index, loops, pods, exc, log>>
       ELSE /\ cur_index' = switch_ctx(it)
            /\ \E ph \in {"Running", "Pending", "absent"} :
                 /\ pods' = [pods EXCEPT ![it] = ph]
                 /\ log' = Append(log, [ev |-> "token_exchange_agent",
                                        ctx |-> switch_ctx(it)])
                 /\ IF ph = "absent"
                    THEN \* token_xchange_agent[0] on an empty list
                         /\ Raise("validate_mirror_peer", "IndexError")
                         /\ loops' = LoopLeave(loops, "validate_mirror_peer",
                                               switch_ctx(it), "raised")
                         /\ UNCHANGED it
                    ELSE IF PodStatusCheck(ph) # "none"
                    THEN /\ Raise("validate_mirror_peer", PodStatusCheck(ph))
                         /\ loops' = LoopLeave(loops, "validate_mirror_peer",
                                               switch_ctx(it), "raised")
                         /\ UNCHANGED it
                    ELSE /\ it' = it + 1
                         /\ UNCHANGED <<pc, exc, loops>>
    /\ UNCHANGED <<ext, cfg, cluster, restore_ctx_index, timeout, polls, dr, ocsv,
                   cmp, i>>

\* ------------------------------------ RBDDRDeployOps.configure_mirror_peer
\* lines 1660-1686: the mirror peer is created on the hub, then validated
CMP_Start ==
    /\ pc["configure_mirror_peer"] = "start"
    /\ cur_index' = switch_acm_ctx
    /\ log' = Append(log, [ev |-> "create_mirror_peer", ctx |-> switch_acm_ctx])
    /\ resources' = [resources EXCEPT ![switch_acm_ctx] = @ \cup {"MirrorPeer"}]
    /\ Goto2("configure_mirror_peer", "call_validate_mirror_peer",
             "validate_mirror_peer", "start")
    /\ UNCHANGED <<ext, cfg, registry, drv, ocsv, cmp, exc, loops, i>>

CMP_Validated ==
    /\ pc["configure_mirror_peer"] = "call_validate_mirror_peer"
    /\ Finished("validate_mirror_peer")
    /\ IF pc["validate_mirror_peer"] = "raised"
       THEN Raise("configure_mirror_peer", exc["validate_mirror_peer"])
       ELSE /\ Goto2("configure_mirror_peer", "query_mirroring",
                     "validate_mirror_peer", "idle")
            /\ UNCHANGED exc
    /\ UNCHANGED <<ext, cfg, cluster, drv, ocsv, cmp, cur_index, log, loops, i>>

\* mutant: only the first cluster's answer is compared
MirroringMismatch_FirstOnly(out_list) ==
    \E c \in DOMAIN out_list :
        /\ \A d \in DOMAIN out_list : c <= d
        /\ out_list[c] # "true"

\* lines 1697-1707: some cluster's answer differs from "true" (the skipped
\* hub has no entry)
MirroringMismatch(out_list) ==
    \E c \in DOMAIN out_list : out_list[c] # "true"

\* lines 1688-1708: the CephBlockPool mirroring flag of every non-hub cluster
CMP_QueryMirroring ==
    /\ pc["configure_mirror_peer"] = "query_mirroring"
    /\ \E out \in [{c \in Clusters : c # acm_index} -> {"true", "false", ""}] :
         /\ dr' = [dr EXCEPT !.mirroring = out]
         /\ log' = log \o FanOut("query_mirroring", acm_index, 0)
         /\ IF MirroringMismatch(out)
            THEN /\ Raise("configure_mirror_peer", "ResourceWrongStatusException")
                 /\ UNCHANGED <<it, loops>>
            ELSE /\ Goto("configure_mirror_peer", "loop")
                 /\ it' = 1
                 /\ loops' = LoopEnter("configure_mirror_peer")
                 /\ UNCHANGED exc
    /\ UNCHANGED <<ext, cfg, cluster, restore_ctx_index, timeout, polls, pods, ocsv,
                   cmp, cur_index, i>>

\* lines 1710-1721
CMP_Loop ==
    /\ pc["configure_mirror_peer"] = "loop"
    /\ IF it > Len(NonAcmClusters)
       THEN /\ cur_index' = switch_acm_ctx
            /\ loops' = LoopLeave(loops, "configure_mirror_peer", switch_acm_ctx,
                                  "completed")
            /\ Goto("configure_mirror_peer", "returned")
            /\ UNCHANGED <<exc, log>>
       ELSE /\ cur_index' = switch_ctx(NonAcmClusters[it])
            /\ log' = Append(log, [ev |-> "rbd_mirror_pod_check",
                                   ctx |-> switch_ctx(NonAcmClusters[it])])
            /\ \/ /\ Goto2("configure_mirror_peer", "call_validate_csi_sidecar",
                           "validate_csi_sidecar", "start")
                  /\ UNCHANGED <<exc, loops>>
               \/ /\ Raise("configure_mirror_peer", "PodNotCreated")
                  /\ loops' = LoopLeave(loops, "configure_mirror_peer",
                                        switch_ctx(NonAcmClusters[it]), "raised")
    /\ UNCHANGED <<ext, cfg, cluster, drv, ocsv, cmp, i>>

CMP_SidecarDone ==
    /\ pc["configure_mirror_peer"] = "call_validate_csi_sidecar"
    /\ Finished("validate_csi_sidecar")
    /\ IF pc["validate_csi_sidecar"] = "raised"
       THEN /\ Raise("configure_mirror_peer", exc["validate_csi_sidecar"])
            /\ loops' = LoopLeave(loops, "configure_mirror_peer", cur_index,
                                  "raised")
            /\ UNCHANGED <<it, timeout, polls>>
       ELSE /\ Goto2("configure_mirror_peer", "loop",
                     "validate_csi_sidecar", "idle")
            /\ it' = it + 1
            \* the callee's locals are gone
            /\ timeout' = 0
            /\ polls' = NoPolls
            /\ UNCHANGED <<exc, loops>>
    /\ UNCHANGED <<ext, cfg, cluster, restore_ctx_index, pods, dr, ocsv, cmp,
                   cur_index, log, i>>

\* ------------------------- MultiClusterDROperatorsDeploy.deploy_dr_policy
\* S3 profile names of the hub config map; the k-th one carries the name of
\* cluster k-1, the last one the name of no cluster
ProfileNames == <<"s3profile-c0", "s3profile-c1", "s3profile-c2",
                  "s3profile-c3", "s3profile-c4">>

OtherProfile == "s3profile-other"

\* line 1966: cluster.ENV_DATA["cluster_name"] in profile_name
NameIn(c, profile_name) == profile_name = ProfileNames[c + 1]

\* lines 1965-1967: the entry keeps the template's value unless a profile matches
S3ProfileFor(c, initial, s3profiles) ==
    IF \E p \in s3profiles : NameIn(c, p)
    THEN CHOOSE p \in s3profiles : NameIn(c, p)
    ELSE initial

\* Python truth value of the entry's s3ProfileName (empty or null: false)
Truthy(v) == v # ""

Min(a, b) == IF a < b THEN a ELSE b

\* lines 1961-1967: zip(get_non_acm_cluster_config(), drClusterSet)
PolicyEntries(template, s3profiles) ==
    [k \in 1 .. Min(Len(NonAcmClusters), Len(template)) |->
        S3ProfileFor(NonAcmClusters[k], template[k], s3profiles)]

\* lines 1968-1972: the check that raises RDRDeploymentException
PolicyRaises(template, s3profiles) ==
    \E k \in DOMAIN PolicyEntries(template, s3profiles) :
        ~ Truthy(PolicyEntries(template, s3profiles)[k])

\* lines 1958-1979
POL_Start ==
    /\ pc["deploy_dr_policy"] = "start"
    /\ IF PolicyRaises(dr.template, dr.s3profiles)
       THEN /\ Raise("deploy_dr_policy", "RDRDeploymentException")
            /\ UNCHANGED <<dr, resources, log>>
       ELSE /\ Goto("deploy_dr_policy", "wait")
            /\ dr' = [dr EXCEPT !.policy = PolicyEntries(dr.template, dr.s3profiles)]
            /\ Create({"DRPolicy"})
            /\ Emit("create_drpolicy")
            /\ UNCHANGED exc
    /\ UNCHANGED <<ext, cfg, registry, it, restore_ctx_index, timeout, polls, pods,
                   ocsv, cmp, cur_index, loops, i>>

\* mutant: the result of the wait is not looked at
PolicyWaitRaises_Never(reached) == FALSE

\* lines 1993-1994: if not sample.wait_for_func_status(True): raise
PolicyWaitRaises(reached) == ~ reached

\* lines 1980-1994: poll the DRPolicy status reason until it is "Succeeded"
\* or the sampler's timeout expires
POL_Wait ==
    /\ pc["deploy_dr_policy"] = "wait"
    /\ \E reached \in BOOLEAN :
         /\ IF reached THEN Emit("drpolicy_Succeeded") ELSE UNCHANGED log
         /\ IF PolicyWaitRaises(reached)
            THEN Raise("deploy_dr_policy", "TimeoutExpiredError")
            ELSE /\ Goto("deploy_dr_policy", "returned")
                 /\ UNCHANGED exc
    /\ UNCHANGED <<ext, cfg, cluster, drv, ocsv, cmp, cur_index, loops, i>>

\* ------------------------------------ MultiClusterDROperatorsDeploy.deploy
\* mutant: the deploy starts in whatever context is current
DR_Start_NoSwitch ==
    /\ pc["dr_deploy"] = "start"
    /\ Goto("dr_deploy", "orchestrator")
    /\ log' = log \o FanOut("create_dr_namespace", NoIndex, 0)
    /\ resources' = [c \in DOMAIN resources |-> resources[c] \cup {"DRNamespace"}]
    /\ UNCHANGED <<ext, cfg, registry, drv, ocsv, cmp, cur_index, exc, loops, i>>

\* lines 1827-1831: switch to the hub, create the DR namespace everywhere
DR_Start ==
    /\ pc["dr_deploy"] = "start"
    /\ cur_index' = switch_acm_ctx
    /\ \/ /\ Goto("dr_deploy", "orchestrator")
          /\ log' = log \o FanOut("create_dr_namespace", NoIndex, 0)
          /\ resources' = [c \in DOMAIN resources |->
                              resources[c] \cup {"DRNamespace"}]
          /\ UNCHANGED exc
       \/ /\ Raise("dr_deploy", "CommandFailed")
          /\ UNCHANGED <<log, resources>>
    /\ UNCHANGED <<ext, cfg, registry, drv, ocsv, cmp, loops, i>>

\* mutant: the DR hub operator step is skipped
DR_Orchestrator_SkipHub ==
    /\ pc["dr_deploy"] = "orchestrator"
    /\ Create({"OrchestratorSubscription"})
    /\ Goto("dr_deploy", "rbd")
    /\ log' = log \o << [ev |-> "create_orchestrator", ctx |-> cur_index],
                        [ev |-> "orchestrator_ready", ctx |-> cur_index] >>
    /\ UNCHANGED <<ext, cfg, registry, drv, ocsv, cmp, cur_index, exc, loops, i>>

\* lines 1832, 1849-1880: multicluster orchestrator subscribed and AVAILABLE
DR_Orchestrator ==
    /\ pc["dr_deploy"] = "orchestrator"
    /\ Create({"OrchestratorSubscription"})
    /\ \/ /\ Goto("dr_deploy", "hub_operator")
          /\ log' = log \o << [ev |-> "create_orchestrator", ctx |-> cur_index],
                              [ev |-> "orchestrator_ready", ctx |-> cur_index] >>
          /\ UNCHANGED exc
       \/ /\ Raise("dr_deploy", "ResourceWrongStatusException")
          /\ Emit("create_orchestrator")
    /\ UNCHANGED <<ext, cfg, registry, drv, ocsv, cmp, cur_index, loops, i>>

\* lines 1834-1837, 1930-1954: operator group, DR hub operator, CSV Succeeded
DR_HubOperator ==
    /\ pc["dr_deploy"] = "hub_operator"
    /\ Create({"DROperatorGroup", "DRHubSubscription"})
    /\ \/ /\ Goto("dr_deploy", "rbd")
          /\ log' = log \o << [ev |-> "create_dr_operatorgroup", ctx |-> cur_index],
                              [ev |-> "create_dr_hub_operator", ctx |-> cur_index],
                              [ev |-> "dr_hub_operator_ready", ctx |-> cur_index] >>
          /\ UNCHANGED exc
       \/ /\ Raise("dr_deploy", "ResourceWrongStatusException")
          /\ log' = log \o << [ev |-> "create_dr_operatorgroup", ctx |-> cur_index],
                              [ev |-> "create_dr_hub_operator", ctx |-> cur_index] >>
    /\ UNCHANGED <<ext, cfg, registry, drv, ocsv, cmp, cur_index, loops, i>>

\* lines 1840-1845
DR_Rbd ==
    /\ pc["dr_deploy"] = "rbd"
    /\ IF flags.rbd_dr_scenario
       THEN Goto2("dr_deploy", "call_configure_mirror_peer",
                  "configure_mirror_peer", "start")
       ELSE Goto2("dr_deploy", "call_deploy_dr_policy",
                  "deploy_dr_policy", "start")
    /\ UNCHANGED <<ext, cfg, cluster, drv, ocsv, cmp, cur_index, exc, log, loops, i>>

\* lines 1843, 2009-2033: s3 secrets created on every cluster but the hub
DR_MirrorConfigured ==
    /\ pc["dr_deploy"] = "call_configure_mirror_peer"
    /\ Finished("configure_mirror_peer")
    /\ IF pc["configure_mirror_peer"] = "raised"
       THEN /\ Raise("dr_deploy", exc["configure_mirror_peer"])
            /\ UNCHANGED <<log, resources>>
       ELSE /\ pc' = [pc EXCEPT !["dr_deploy"] = "call_deploy_dr_policy",
                                !["configure_mirror_peer"] = "idle",
                                !["deploy_dr_policy"] = "start"]
            /\ log' = log \o FanOut("create_s3_secret", acm_index, 0)
            /\ resources' = [c \in DOMAIN resources |->
                                IF c = acm_index THEN resources[c]
                                ELSE resources[c] \cup {"S3Secret"}]
            /\ UNCHANGED exc
    /\ UNCHANGED <<ext, cfg, registry, drv, ocsv, cmp, cur_index, loops, i>>

\* lines 1845-1847, 1882-1928: DRPolicy done, the Ramen config map is applied
DR_PolicyDone ==
    /\ pc["dr_deploy"] = "call_deploy_dr_policy"
    /\ Finished("deploy_dr_policy")
    /\ IF pc["deploy_dr_policy"] = "raised"
       THEN /\ Raise("dr_deploy", exc["deploy_dr_policy"])
            /\ UNCHANGED log
       ELSE /\ Goto2("dr_deploy", "returned", "deploy_dr_policy", "idle")
            /\ Emit("apply_ramen_config")
            /\ UNCHANGED exc
    /\ UNCHANGED <<ext, cfg, cluster, drv, ocsv, cmp, cur_index, loops, i>>

\* ------------------------------------------------ Deployment.do_deploy_ocp
\* mutant: a cluster that is already running is installed again
OcpDeployNeeded_IgnoreRunning(skip_ocp_deployment, is_cluster_running) ==
    ~ skip_ocp_deployment

\* lines 171-174: the installer runs unless the phase is skipped or the
\* cluster is already running
OcpDeployNeeded(skip_ocp_deployment, is_cluster_running) ==
    ~ skip_ocp_deployment /\ ~ is_cluster_running

OCP_Start ==
    /\ pc["do_deploy_ocp"] = "start"
    /\ Goto("do_deploy_ocp",
            IF OcpDeployNeeded(flags.skip_ocp_deployment, run.cluster_running)
            THEN "deploy_ocp" ELSE "returned")
    /\ UNCHANGED <<ext, cfg, cluster, drv, ocsv, cmp, cur_index, exc, log, loops, i>>

\* mutant: the handler tears the half-installed cluster down
DoDeployOcpHandler_Destroy(done) ==
    /\ run' = [run EXCEPT !.is_ocp_deployment_failed = TRUE]
    /\ Raise("do_deploy_ocp", "CommandFailed")
    /\ log' = log \o done
               \o (IF flags.gather_on_deploy_failure
                   THEN << [ev |-> "collect_logs_ocp", ctx |-> cur_index] >>
                   ELSE <<>>)
               \o << [ev |-> "destroy_ocp", ctx |-> cur_index] >>

\* lines 178-183: except Exception: flag the failure, collect logs, re-raise
DoDeployOcpHandler(done) ==
    /\ run' = [run EXCEPT !.is_ocp_deployment_failed = TRUE]
    /\ Raise("do_deploy_ocp", "CommandFailed")
    /\ log' = log \o done
               \o (IF flags.gather_on_deploy_failure
                   THEN << [ev |-> "collect_logs_ocp", ctx |-> cur_index] >>
                   ELSE <<>>)

\* lines 176, 313-328: deploy_ocp; what the installer created stays
OCP_Deploy ==
    /\ pc["do_deploy_ocp"] = "deploy_ocp"
    /\ Create({"OCP"})
    /\ \/ /\ Goto("do_deploy_ocp", "post")
          /\ Emit("deploy_ocp")
          /\ UNCHANGED <<exc, run>>
       \/ DoDeployOcpHandler(<< [ev |-> "deploy_ocp", ctx |-> cur_index] >>)
    /\ UNCHANGED <<ext, env, registry, drv, ocsv, cmp, cur_index, loops, i>>

\* lines 177, 330-343: post_ocp_deploy
OCP_Post ==
    /\ pc["do_deploy_ocp"] = "post"
    /\ \/ /\ Goto("do_deploy_ocp", "returned")
          /\ Emit("post_ocp_deploy")
          /\ registry' = [registry EXCEPT ![cur_index] = "Managed"]
          /\ UNCHANGED <<exc, run>>
       \/ /\ DoDeployOcpHandler(<< [ev |-> "post_ocp_deploy", ctx |-> cur_index] >>)
          /\ UNCHANGED registry
    /\ UNCHANGED <<ext, env, resources, drv, ocsv, cmp, cur_index, loops, i>>

\* ------------------------------------------------ Deployment.do_deploy_rdr
\* mutant: the MCG store falls back to the S3 store
MetaObjStoreInit_FallbackS3(dr_metadata_store) ==
    CASE dr_metadata_store \in {"awss3", "mcg"} -> "none"
      [] OTHER -> "KeyError"

\* lines 1812-1818, 2002-2004, 2092-2093: what constructing the metadata
\* store named by dr_metadata_store raises
MetaObjStoreInit(dr_metadata_store) ==
    CASE dr_metadata_store = "awss3" -> "none"
      [] dr_metadata_store = "mcg" -> "NotImplementedError"
      [] OTHER -> "KeyError"

\* lines 245-248, 300-311, 1807-1819: MultiClusterDROperatorsDeploy(dr_conf)
RDR_Start ==
    /\ pc["do_deploy_rdr"] = "start"
    /\ IF ~ multicluster
       THEN /\ Goto("do_deploy_rdr", "returned")
            /\ UNCHANGED exc
       ELSE IF MetaObjStoreInit(flags.dr_metadata_store) # "none"
       THEN Raise("do_deploy_rdr", MetaObjStoreInit(flags.dr_metadata_store))
       ELSE /\ Goto2("do_deploy_rdr", "call_deploy", "dr_deploy", "start")
            /\ UNCHANGED exc
    /\ UNCHANGED <<ext, cfg, cluster, drv, ocsv, cmp, cur_index, log, loops, i>>

\* line 248: deploy_dr.deploy() ended
RDR_Deployed ==
    /\ pc["do_deploy_rdr"] = "call_deploy"
    /\ Finished("dr_deploy")
    /\ IF pc["dr_deploy"] = "raised"
       THEN Raise("do_deploy_rdr", exc["dr_deploy"])
       ELSE /\ Goto2("do_deploy_rdr", "returned", "dr_deploy", "idle")
            /\ UNCHANGED exc
    /\ UNCHANGED <<ext, cfg, cluster, drv, ocsv, cmp, cur_index, log, loops, i>>

\* ------------------------------------------------ Deployment.deploy_cluster
\* the phases in the order of the calls in deploy_cluster
PhaseOrder == <<"ocp", "netsplit", "acm", "lvmo", "submariner", "ocs", "rdr">>

StartEv == [ocp |-> "phase_ocp_start", netsplit |-> "phase_netsplit_start",
            acm |-> "phase_acm_start", lvmo |-> "phase_lvmo_start",
            submariner |-> "phase_submariner_start",
            ocs |-> "phase_ocs_start", rdr |-> "phase_rdr_start"]

DoneEv == [ocp |-> "phase_ocp_done", netsplit |-> "phase_netsplit_done",
           acm |-> "phase_acm_done", lvmo |-> "phase_lvmo_done",
           submariner |-> "phase_submariner_done",
           ocs |-> "phase_ocs_done", rdr |-> "phase_rdr_done"]

\* mutant: the storage operator is deployed before Submariner
NextPhase_OcsBeforeSubmariner(p) ==
    CASE p = "ocp" -> "netsplit"
      [] p = "netsplit" -> "acm"
      [] p = "acm" -> "lvmo"
      [] p = "lvmo" -> "ocs"
      [] p = "ocs" -> "submariner"
      [] p = "submariner" -> "rdr"
      [] OTHER -> "returned"

\* lines 264-298: the statement that follows phase p
NextPhase(p) ==
    CASE p = "ocp" -> "netsplit"
      [] p = "netsplit" -> "acm"
      [] p = "acm" -> "lvmo"
      [] p = "lvmo" -> "submariner"
      [] p = "submariner" -> "ocs"
      [] p = "ocs" -> "rdr"
      [] OTHER -> "returned"

\* lines 267, 290-293: whether deploy_cluster calls the phase at all
PhaseCalled(p) ==
    CASE p = "netsplit" -> flags.network_split_setup
      [] p = "acm" -> flags.deploy_acm_hub_cluster
                      /\ flags.ocp_version >= VERSION_4_9
      [] OTHER -> TRUE

\* lines 190-197, 1235-1237: whether the called phase does anything
PhaseWorks(p) ==
    CASE p = "lvmo" -> flags.install_lvmo
      [] p = "submariner" -> ~ flags.skip_submariner_deployment /\ multicluster
      [] OTHER -> TRUE

PhaseResource == [netsplit |-> "MachineConfig", acm |-> "MultiClusterHub",
                  lvmo |-> "LVMCluster", submariner |-> "Submariner"]

\* line 264
DC_Start ==
    /\ pc["deploy_cluster"] = "start"
    /\ Goto2("deploy_cluster", "call_ocp", "do_deploy_ocp", "start")
    /\ Emit(StartEv["ocp"])
    /\ UNCHANGED <<ext, cfg, cluster, drv, ocsv, cmp, cur_index, exc, loops, i>>

\* a called phase function ended: its exception leaves deploy_cluster, its
\* return leads to the next statement
PhaseEnded(p, f) ==
    /\ Finished(f)
    /\ IF pc[f] = "raised"
       THEN /\ Raise("deploy_cluster", exc[f])
            /\ UNCHANGED log
       ELSE /\ Goto2("deploy_cluster", NextPhase(p), f, "idle")
            /\ Emit(DoneEv[p])
            /\ UNCHANGED exc

DC_OcpDone ==
    /\ pc["deploy_cluster"] = "call_ocp"
    /\ PhaseEnded("ocp", "do_deploy_ocp")
    /\ UNCHANGED <<ext, cfg, cluster, drv, ocsv, cmp, cur_index, loops, i>>

\* lines 267-296: setup_netsplit, deploy_acm_hub, do_deploy_lvmo,
\* do_deploy_submariner; each returns or raises
DC_Simple(p) ==
    /\ pc["deploy_cluster"] = p
    /\ IF ~ PhaseCalled(p)
       THEN /\ Goto("deploy_cluster", NextPhase(p))
            /\ UNCHANGED <<log, exc, resources>>
       ELSE \/ /\ Goto("deploy_cluster", NextPhase(p))
               /\ log' = log \o << [ev |-> StartEv[p], ctx |-> cur_index],
                                   [ev |-> DoneEv[p], ctx |-> cur_index] >>
               /\ IF PhaseWorks(p) THEN Create({PhaseResource[p]})
                                   ELSE UNCHANGED resources
               /\ UNCHANGED exc
            \/ /\ PhaseWorks(p)
               /\ Raise("deploy_cluster", "CommandFailed")
               /\ Emit(StartEv[p])
               /\ UNCHANGED resources
    /\ UNCHANGED <<ext, cfg, registry, drv, ocsv, cmp, cur_index, loops, i>>

\* line 297
DC_Ocs ==
    /\ pc["deploy_cluster"] = "ocs"
    /\ Goto2("deploy_cluster", "call_ocs", "do_deploy_ocs", "start")
    /\ Emit(StartEv["ocs"])
    /\ UNCHANGED <<ext, cfg, cluster, drv, ocsv, cmp, cur_index, exc, loops, i>>

DC_OcsDone ==
    /\ pc["deploy_cluster"] = "call_ocs"
    /\ PhaseEnded("ocs", "do_deploy_ocs")
    /\ UNCHANGED <<ext, cfg, cluster, drv, ocsv, cmp, cur_index, loops, i>>

\* line 298
DC_Rdr ==
    /\ pc["deploy_cluster"] = "rdr"
    /\ Goto2("deploy_cluster", "call_rdr", "do_deploy_rdr", "start")
    /\ Emit(StartEv["rdr"])
    /\ UNCHANGED <<ext, cfg, cluster, drv, ocsv, cmp, cur_index, exc, loops, i>>

DC_RdrDone ==
    /\ pc["deploy_cluster"] = "call_rdr"
    /\ PhaseEnded("rdr", "do_deploy_rdr")
    /\ UNCHANGED <<ext, cfg, cluster, drv, ocsv, cmp, cur_index, loops, i>>

\* ------------------------------------------------ Deployment.destroy_cluster
\* what a finished deployment leaves on a cluster
DeployedKinds == {"CatalogSource", "Namespace", "OperatorGroup", "Subscription",
                  "StorageSystem", "StorageCluster", "CephCluster", "Toolbox"}

TeardownEvents == {"uninstall_ocs", "destroy_ocs", "destroy_ocp"}

\* mutant: the handler lets the exception of uninstall_ocs through
UninstallOcsHandler_Raise ==
    /\ Raise("destroy_cluster", "CommandFailed")
    /\ log' = Append(log, [ev |-> "uninstall_ocs", ctx |-> cur_index])

\* lines 1329-1331: the except-handler of uninstall_ocs logs the failure and
\* the teardown resumes
UninstallOcsHandler ==
    /\ Goto("destroy_cluster", "destroy_ocp")
    /\ log' = log \o << [ev |-> "uninstall_ocs", ctx |-> cur_index],
                        [ev |-> "uninstall_ocs_failure_logged",
                         ctx |-> cur_index] >>
    /\ UNCHANGED exc

\* lines 1318-1332: destroy_ocs on IBM Power, uninstall_ocs elsewhere
DES_Start ==
    /\ pc["destroy_cluster"] = "start"
    /\ IF flags.platform = "powervs"
       THEN /\ Goto("destroy_cluster", "returned")
            /\ IF ~ flags.skip_ocs_deployment
               THEN /\ Emit("destroy_ocs")
                    /\ resources' = [resources EXCEPT
                                       ![cur_index] = @ \ DeployedKinds]
               ELSE UNCHANGED <<log, resources>>
            /\ UNCHANGED exc
       ELSE \/ /\ Goto("destroy_cluster", "destroy_ocp")
               /\ Emit("uninstall_ocs")
               /\ resources' = [resources EXCEPT
                                  ![cur_index] = @ \ DeployedKinds]
               /\ UNCHANGED exc
            \/ /\ UninstallOcsHandler
               /\ \/ UNCHANGED resources
                  \/ resources' = [resources EXCEPT
                                     ![cur_index] = @ \ {"StorageCluster"}]
    /\ UNCHANGED <<ext, cfg, registry, drv, ocsv, cmp, cur_index, loops, i>>

\* line 1333: self.ocp_deployment.destroy(log_level)
DES_DestroyOcp ==
    /\ pc["destroy_cluster"] = "destroy_ocp"
    /\ Emit("destroy_ocp")
    /\ \/ /\ Goto("destroy_cluster", "returned")
          /\ resources' = [resources EXCEPT ![cur_index] = {}]
          /\ UNCHANGED exc
       \/ /\ Raise("destroy_cluster", "CommandFailed")
          /\ UNCHANGED resources
    /\ UNCHANGED <<ext, cfg, registry, drv, ocsv, cmp, cur_index, loops, i>>

\* ------------------------------------------------------ create_catalog_source
\* An image reference is a sequence of pieces; the piece ":" is the colon.
\* <<>> is the empty string, and None where the source tests truthiness.
RECURSIVE LastColon(_, _)
LastColon(s, k) ==
    IF k = 0 THEN 0 ELSE IF s[k] = ":" THEN k ELSE LastColon(s, k - 1)

\* s.rsplit(":", 1)
RSplit(s) ==
    LET k == LastColon(s, Len(s))
    IN IF k = 0 THEN << s >>
       ELSE << SubSeq(s, 1, k - 1), SubSeq(s, k + 1, Len(s)) >>

\* constants.OSBS_BOUNDLE_IMAGE
OSBS_BOUNDLE_IMAGE == << "registry-proxy/rh-osbs/iib-pub-pending" >>

\* f"v{ocp_version}"
DefaultStageTag == << "v4.10" >>

\* what get_latest_ds_olm_tag returns
DsTag == << "latest-stable" >>

\* spec.image of the CatalogSource template (constants.CATALOG_SOURCE_YAML)
TemplateImage == << "quay.io/template/ocs-registry", ":", "latest" >>

\* lines 1552-1558: the stage index image with its tag
StageImage(c) ==
    (IF c.stage_index_image = <<>> THEN OSBS_BOUNDLE_IMAGE
     ELSE c.stage_index_image)
    \o << ":" >>
    \o (IF c.stage_index_image_tag = <<>> THEN DefaultStageTag
        ELSE c.stage_index_image_tag)

\* lines 1550-1594: spec.image of the manifest that is applied
CatalogImage(arg, c) ==
    LET i1 == IF arg = <<>> THEN c.ocs_registry_image ELSE arg
        i2 == IF c.stage_rh_osbs THEN StageImage(c) ELSE i1
        image_and_tag == RSplit(i2)
        image == image_and_tag[1]
        tag0 == IF Len(image_and_tag) = 2 THEN image_and_tag[2] ELSE <<>>
        image_tag == IF tag0 = <<>> /\ c.us_ds = "DS" THEN DsTag ELSE tag0
    IN IF image # <<>> \/ image_tag # <<>>
       THEN (IF image # <<>> THEN image
             ELSE RSplit(c.default_ocs_registry_image)[1])
            \o << ":" >>
            \o (IF image_tag # <<>> THEN image_tag ELSE << "latest" >>)
       ELSE TemplateImage

\* mutant: the manifest is applied without waiting for the machine-config pools
StagePrep_NoWait(c) ==
    IF c.stage_rh_osbs
    THEN << "patch_insecure_registries", "apply_icsp" >>
    ELSE <<>>

\* lines 1559-1566: what is done for a stage image before anything else
StagePrep(c) ==
    IF c.stage_rh_osbs
    THEN << "patch_insecure_registries", "apply_icsp", "mcp_steady" >>
    ELSE <<>>

Events(evs) == [k \in DOMAIN evs |-> [ev |-> evs[k], ctx |-> cur_index]]

\* line 1548: disable_specific_source(constants.OPERATOR_CATALOG_SOURCE_NAME)
CCS_Start ==
    /\ pc["create_catalog_source"] = "start"
    /\ \/ /\ Goto("create_catalog_source", "select")
          /\ Emit("disable_default_source")
          /\ UNCHANGED exc
       \/ /\ Raise("create_catalog_source", "CommandFailed")
          /\ UNCHANGED log
    /\ UNCHANGED <<ext, core, resources, registry>>

\* lines 1550-1566: the stage prerequisites; any of the three steps may fail
CCS_Select ==
    /\ pc["create_catalog_source"] = "select"
    /\ \/ /\ Goto("create_catalog_source", "apply")
          /\ log' = log \o Events(StagePrep(ccs))
          /\ UNCHANGED exc
       \/ /\ ccs.stage_rh_osbs
          /\ \E n \in 0 .. 2 :
               log' = log \o Events(SubSeq(StagePrep(ccs), 1, n))
          /\ Raise("create_catalog_source", "CommandFailed")
    /\ UNCHANGED <<ext, core, resources, registry>>

\* lines 1567-1599: the manifest is built and applied
CCS_Apply ==
    /\ pc["create_catalog_source"] = "apply"
    /\ \/ /\ Goto("create_catalog_source", "wait")
          /\ Emit("apply_catalog_source")
          /\ ccs' = [ccs EXCEPT !.applied = CatalogImage(ccs.image, ccs)]
          /\ Create({"CatalogSource"}
                    \cup (IF flags.platform = "ibm_cloud" THEN {"Secret"} ELSE {}))
          /\ UNCHANGED exc
       \/ /\ Raise("create_catalog_source", "CommandFailed")
          /\ UNCHANGED <<log, ccs, resources>>
    /\ UNCHANGED <<extm, ecc, lt, components, rcm, cfg, registry, drv, ocsv, cmp,
                   cur_index, loops, i>>

\* lines 1600-1605: catalog_source.wait_for_state("READY")
CCS_Wait ==
    /\ pc["create_catalog_source"] = "wait"
    /\ \/ /\ Goto("create_catalog_source", "returned")
          /\ Emit("catalog_ready")
          /\ UNCHANGED exc
       \/ /\ Raise("create_catalog_source", "ResourceWrongStatusException")
          /\ UNCHANGED log
    /\ UNCHANGED <<ext, core, resources, registry>>

\* the arguments and settings a call of create_catalog_source may see
CcsInputs ==
    {[image |-> im, ocs_registry_image |-> ri, stage_rh_osbs |-> st,
      stage_index_image |-> si, stage_index_image_tag |-> <<>>,
      us_ds |-> ud,
      default_ocs_registry_image |->
          << "quay.io/rhceph-dev/ocs-registry", ":", "latest" >>,
      applied |-> << "unset" >>] :
        im \in {<<>>, << "quay.io/mine/ocs" >>,
                << "quay.io/mine/ocs", ":", "4.10-rc1" >>},
        ri \in {<<>>, << "quay.io/rhceph-dev/ocs-registry", ":", "4.10" >>},
        st \in BOOLEAN, si \in {<<>>, << "registry.stage/index" >>},
        ud \in {"US", "DS"}}

CcsDefault ==
    CHOOSE c \in CcsInputs :
        /\ c.image = <<>> /\ c.ocs_registry_image = <<>> /\ ~ c.stage_rh_osbs
        /\ c.stage_index_image = <<>> /\ c.us_ds = "US"

\* ------------------------------------------- get_external_cluster_client
\* config.EXTERNAL_MODE["external_cluster_node_roles"]: the nodes in the order
\* of the mapping; node k is the entry under the key "node<k>"
IpAddress(name) == << "ip", name >>

NodeLists(n) ==
    {l \in [1 .. n -> [name : 1 .. MaxNodes,
                       role : {{"client"}, {"mon"}, {"client", "rgw"}}]] :
        \A a \in 1 .. n, b \in 1 .. n : a # b => l[a].name # l[b].name}

ExternalNodeRoles == UNION {NodeLists(n) : n \in 0 .. MaxNodes}

\* the first position of nodes.values() whose role holds "client", 0 if none
RECURSIVE FirstClient(_, _)
FirstClient(nodes, k) ==
    IF k > Len(nodes) THEN 0
    ELSE IF "client" \in nodes[k].role THEN k
    ELSE FirstClient(nodes, k + 1)

\* lines 380-381: the fallback when no node has the client role
ClientFallback(nodes) ==
    IF \E k \in DOMAIN nodes : nodes[k].name = 1
    THEN [kind |-> "return", ip_address |-> IpAddress(1)]
    ELSE [kind |-> "raise", exc |-> "KeyError"]

\* lines 374-381
GetExternalClusterClient(nodes) ==
    LET k == FirstClient(nodes, 1)
    IN IF k # 0
       THEN [kind |-> "return", ip_address |-> IpAddress(nodes[k].name)]
       ELSE ClientFallback(nodes)

ECC_Call ==
    /\ pc["get_external_cluster_client"] = "start"
    /\ LET r == GetExternalClusterClient(ecc.nodes)
       IN /\ ecc' = [ecc EXCEPT !.result = r]
          /\ IF r.kind = "raise"
             THEN Raise("get_external_cluster_client", r.exc)
             ELSE /\ Goto("get_external_cluster_client", "returned")
                  /\ UNCHANGED exc
    /\ UNCHANGED <<extm, ccs, lt, components, rcm, core, resources, registry, log>>

\* ------------------------------------------- Deployment.label_and_taint_nodes
\* A node is [worker, az]; its name is its position in the node list.
\* lines 358-362: the names of the nodes that carry the worker label
RECURSIVE WorkersFrom(_, _)
WorkersFrom(nodes, k) ==
    IF k > Len(nodes) THEN <<>>
    ELSE (IF nodes[k].worker THEN << k >> ELSE <<>>) \o WorkersFrom(nodes, k + 1)

WorkerNodes(nodes) == WorkersFrom(nodes, 1)

\* lines 365-370: the keys of az_worker_nodes, in the order they were inserted
RECURSIVE AzKeys(_, _, _)
AzKeys(nodes, workers, seen) ==
    IF workers = <<>> THEN <<>>
    ELSE LET az == nodes[Head(workers)].az
         IN IF az \in seen THEN AzKeys(nodes, Tail(workers), seen)
            ELSE << az >> \o AzKeys(nodes, Tail(workers), seen \cup {az})

\* az_worker_nodes.get(az): the workers of the zone, in node order
RECURSIVE AzNodeList(_, _, _)
AzNodeList(nodes, workers, az) ==
    IF workers = <<>> THEN <<>>
    ELSE (IF nodes[Head(workers)].az = az THEN << Head(workers) >> ELSE <<>>)
         \o AzNodeList(nodes, Tail(workers), az)

AzLists(nodes) ==
    LET w == WorkerNodes(nodes)
        keys == AzKeys(nodes, w, {})
    IN [k \in DOMAIN keys |-> AzNodeList(nodes, w, keys[k])]

RECURSIVE Heads(_)
Heads(lists) ==
    IF lists = <<>> THEN <<>>
    ELSE (IF Head(lists) # <<>> THEN << Head(Head(lists)) >> ELSE <<>>)
         \o Heads(Tail(lists))

RECURSIVE Popped(_)
Popped(lists) ==
    IF lists = <<>> THEN <<>>
    ELSE (IF Head(lists) # <<>> THEN << Tail(Head(lists)) >> ELSE <<>>)
         \o Popped(Tail(lists))

\* lines 398-405: one pass takes the first node of every zone that has one
\* and drops the zones found empty
RECURSIVE RoundRobin(_)
RoundRobin(lists) ==
    IF lists = <<>> THEN <<>> ELSE Heads(lists) \o RoundRobin(Popped(lists))

Take(l, n) == SubSeq(l, 1, IF n < Len(l) THEN n ELSE Len(l))

\* lines 378-383: two nodes of every detected zone that has more than one
RECURSIVE Autodetect(_)
Autodetect(lists) ==
    IF lists = <<>> THEN <<>>
    ELSE (IF Len(Head(lists)) > 1 THEN Take(Head(lists), 2) ELSE <<>>)
         \o Autodetect(Tail(lists))

\* lines 385-397: to_label_per_az nodes of every configured zone; a zone
\* with fewer than two workers ends the call
RECURSIVE PerZone(_, _, _, _)
PerZone(nodes, workers, zones, per) ==
    IF zones = <<>> THEN [ok |-> TRUE, nodes |-> <<>>]
    ELSE LET l == AzNodeList(nodes, workers, Head(zones))
             rest == PerZone(nodes, workers, Tail(zones), per)
         IN IF Len(l) > 1 /\ rest.ok
            THEN [ok |-> TRUE, nodes |-> Take(l, per) \o rest.nodes]
            ELSE [ok |-> FALSE, nodes |-> <<>>]

\* ocs_operator_nodes_to_label is not set: NoIndex stands for the missing key
ARBITER_NODES_TO_LABEL == 4

\* lines 372-375
ToLabel(c) ==
    IF c.arbiter_deployment /\ c.nodes_to_label = NoIndex
    THEN ARBITER_NODES_TO_LABEL ELSE c.nodes_to_label

\* the lists one after the other
RECURSIVE Concatenated(_)
Concatenated(lists) ==
    IF lists = <<>> THEN <<>> ELSE Head(lists) \o Concatenated(Tail(lists))

\* mutant: outside arbiter mode the zones are emptied one after the other
Distributed_ZoneByZone(c) ==
    IF c.arbiter_deployment /\ c.arbiter_autodetect
    THEN [ok |-> TRUE, nodes |-> Autodetect(AzLists(c.nodes))]
    ELSE IF c.arbiter_deployment
    THEN PerZone(c.nodes, WorkerNodes(c.nodes), c.worker_availability_zones,
                 ToLabel(c) \div Len(c.worker_availability_zones))
    ELSE [ok |-> TRUE, nodes |-> Concatenated(AzLists(c.nodes))]

\* lines 377-405: distributed_worker_nodes
Distributed(c) ==
    IF c.arbiter_deployment /\ c.arbiter_autodetect
    THEN [ok |-> TRUE, nodes |-> Autodetect(AzLists(c.nodes))]
    ELSE IF c.arbiter_deployment
    THEN PerZone(c.nodes, WorkerNodes(c.nodes), c.worker_availability_zones,
                 ToLabel(c) \div Len(c.worker_availability_zones))
    ELSE [ok |-> TRUE, nodes |-> RoundRobin(AzLists(c.nodes))]

\* mutant: the number of nodes to taint is not compared
NotEnoughNodes_LabelOnly(count, to_label, to_taint) == count < to_label

\* line 411
NotEnoughNodes(count, to_label, to_taint) ==
    count < to_label \/ count < to_taint

Range(l) == {l[k] : k \in DOMAIN l}

\* lines 354-418
LT_Start ==
    /\ pc["label_and_taint_nodes"] = "start"
    /\ LET d == Distributed(lt)
       IN IF \/ WorkerNodes(lt.nodes) = <<>>
             \/ ~ d.ok
             \/ NotEnoughNodes(Len(d.nodes), ToLabel(lt), lt.nodes_to_taint)
          THEN Raise("label_and_taint_nodes", "UnavailableResourceException")
          ELSE /\ Goto("label_and_taint_nodes", "label")
               /\ UNCHANGED exc
    /\ UNCHANGED <<ext, core, resources, registry, log>>

\* lines 420-447: one label command for the first to_label nodes
LT_Label ==
    /\ pc["label_and_taint_nodes"] = "label"
    /\ LET workers_to_label == Take(Distributed(lt).nodes, ToLabel(lt))
       IN IF workers_to_label = <<>>
          THEN /\ Goto("label_and_taint_nodes", "taint")
               /\ UNCHANGED <<exc, log, lt>>
          ELSE \/ /\ Goto("label_and_taint_nodes", "taint")
                  /\ Emit("label_nodes")
                  /\ lt' = [lt EXCEPT !.labelled = Range(workers_to_label)]
                  /\ UNCHANGED exc
               \/ /\ Raise("label_and_taint_nodes", "CommandFailed")
                  /\ Emit("label_nodes")
                  /\ UNCHANGED lt
    /\ UNCHANGED <<extm, ccs, ecc, components, rcm, core, resources, registry>>

\* lines 449-459: one taint command for the first to_taint nodes
LT_Taint ==
    /\ pc["label_and_taint_nodes"] = "taint"
    /\ LET workers_to_taint == Take(Distributed(lt).nodes, lt.nodes_to_taint)
       IN IF workers_to_taint = <<>>
          THEN /\ Goto("label_and_taint_nodes", "returned")
               /\ UNCHANGED <<exc, log, lt>>
          ELSE \/ /\ Goto("label_and_taint_nodes", "returned")
                  /\ Emit("taint_nodes")
                  /\ lt' = [lt EXCEPT !.tainted = Range(workers_to_taint)]
                  /\ UNCHANGED exc
               \/ /\ Raise("label_and_taint_nodes", "CommandFailed")
                  /\ Emit("taint_nodes")
                  /\ UNCHANGED lt
    /\ UNCHANGED <<extm, ccs, ecc, components, rcm, core, resources, registry>>

Zones == {"a", "b"}

\* the nodes and settings a call of label_and_taint_nodes may see
LtInputs ==
    {c \in [nodes : UNION {[1 .. n -> [worker : BOOLEAN, az : Zones]] :
                              n \in 0 .. MaxNodes},
            arbiter_deployment : BOOLEAN, arbiter_autodetect : BOOLEAN,
            worker_availability_zones : {<< "a" >>, << "a", "b" >>},
            nodes_to_label : {NoIndex, 0, 2, 3},
            nodes_to_taint : {0, 1, 3},
            labelled : {{}}, tainted : {{}}] :
        /\ (~ c.arbiter_deployment
              => /\ ~ c.arbiter_autodetect
                 /\ c.worker_availability_zones = << "a" >>
                 /\ c.nodes_to_label # NoIndex)
        /\ (c.arbiter_autodetect => c.worker_availability_zones = << "a" >>)}

LtDefault ==
    [nodes |-> <<>>, arbiter_deployment |-> FALSE, arbiter_autodetect |-> FALSE,
     worker_availability_zones |-> << "a" >>, nodes_to_label |-> 3,
     nodes_to_taint |-> 0, labelled |-> {}, tainted |-> {}]

\* ------------------- MultiClusterDROperatorsDeploy.update_config_map_commit
\* A text is a sequence of pieces; the piece ":" is the colon that follows a
\* key.  A YAML document is a sequence of lines [indent, text].
\* constants.DR_RAMEN_CONFIG_MANAGER_KEY
DR_RAMEN_CONFIG_MANAGER_KEY == "ramen_manager_config.yaml"

RamenName == << DR_RAMEN_CONFIG_MANAGER_KEY >>

\* names of other data keys, and all names in the order of Python's str
OtherNames ==
    { << "a.yaml" >>, << "old.", DR_RAMEN_CONFIG_MANAGER_KEY >>, << "z.yaml" >> }

SortedNames ==
    << << "a.yaml" >>, << "old.", DR_RAMEN_CONFIG_MANAGER_KEY >>, RamenName,
       << "z.yaml" >> >>

\* keys of the embedded Ramen configuration, in the order of Python's str
AutomationKey == "drClusterOperator.deploymentAutomationEnabled"

SortedRamenKeys ==
    << "drClusterOperator.channelName", AutomationKey, "ramenControllerType" >>

RamenPairs ==
    { [k |-> "drClusterOperator.channelName", v |-> "stable"],
      [k |-> AutomationKey, v |-> "false"],
      [k |-> AutomationKey, v |-> "true"],
      [k |-> "ramenControllerType", v |-> "dr-hub"] }

\* the embedded configuration as it is written in the config map: its keys
\* in any order; the section drClusterOperator is always there
RamenTexts ==
    {t \in UNION {[1 .. n -> RamenPairs] : n \in 1 .. Len(SortedRamenKeys)} :
        /\ \A a \in DOMAIN t, b \in DOMAIN t : a # b => t[a].k # t[b].k
        /\ \E a \in DOMAIN t : t[a].k = "drClusterOperator.channelName"}

\* yaml.safe_load of a text of "key: value" lines
SafeLoad(t) ==
    [k \in {t[a].k : a \in DOMAIN t} |->
        t[CHOOSE a \in DOMAIN t : t[a].k = k].v]

\* yaml.dump of a mapping: one "key: value" line per key, keys sorted
RECURSIVE DumpMapping(_, _, _)
DumpMapping(m, order, n) ==
    IF n > Len(order) THEN <<>>
    ELSE (IF order[n] \in DOMAIN m
          THEN << [k |-> order[n], v |-> m[order[n]]] >> ELSE <<>>)
         \o DumpMapping(m, order, n + 1)

\* lines 1899-1908: the embedded text is parsed, the automation flag is set
\* and the mapping takes the place of the text
RamenSection(t) == Put(SafeLoad(t), AutomationKey, "true")

NestedLines(pairs) ==
    [a \in DOMAIN pairs |->
        [indent |-> 2, text |-> << pairs[a].k, ":", pairs[a].v >>]]

\* line 1916: yaml.dump(config_map_data), the data section: a string value
\* on the line of its key, the mapping of the Ramen key on the lines below it
RECURSIVE DumpData(_, _)
DumpData(data, n) ==
    IF n > Len(SortedNames) THEN <<>>
    ELSE LET name == SortedNames[n]
         IN (IF name = RamenName
             THEN << [indent |-> 1, text |-> name \o << ":" >>] >>
                  \o NestedLines(DumpMapping(RamenSection(data.ramen),
                                             SortedRamenKeys, 1))
             ELSE IF name \in DOMAIN data.other
             THEN << [indent |-> 1,
                      text |-> name \o << ":" >> \o data.other[name]] >>
             ELSE <<>>)
            \o DumpData(data, n + 1)

\* lines 1921-1924: str.replace("<key>:", "<key>: |") on one line; every
\* occurrence is replaced
RECURSIVE ReplaceKey(_)
ReplaceKey(text) ==
    IF Len(text) < 2 THEN text
    ELSE IF text[1] = DR_RAMEN_CONFIG_MANAGER_KEY /\ text[2] = ":"
    THEN << text[1], text[2], "|" >> \o ReplaceKey(SubSeq(text, 3, Len(text)))
    ELSE << text[1] >> \o ReplaceKey(Tail(text))

ReplaceAll(lines) ==
    [a \in DOMAIN lines |->
        [indent |-> lines[a].indent, text |-> ReplaceKey(lines[a].text)]]

\* lines 1899-1924: the document written to the temporary file
YamlSerialized(data) == ReplaceAll(DumpData(data, 1))

\* lines 1909-1911: metadata keys that are dropped
DroppedMetadata ==
    {"annotations", "creationTimestamp", "resourceVersion", "uid"}

\* lines 1886-1928
UCM_Commit ==
    /\ pc["update_config_map_commit"] = "start"
    /\ rcm' = [rcm EXCEPT !.serialized = YamlSerialized(rcm.data),
                          !.metadata = @ \ DroppedMetadata]
    /\ Emit("oc_apply_configmap_file")
    /\ \/ /\ Goto("update_config_map_commit", "returned")
          /\ UNCHANGED exc
       \/ Raise("update_config_map_commit", "CommandFailed")
    /\ UNCHANGED <<extm, ccs, ecc, lt, components, core, resources, registry>>

\* the config maps update_config_map_commit may be given: the embedded Ramen
\* configuration under its key and string values under the other keys
RcmInputs ==
    {[data |-> [ramen |-> t, other |-> [n \in ks |-> << "text" >>]],
      metadata |-> md, serialized |-> <<>>] :
        t \in RamenTexts,
        ks \in {x \in SUBSET OtherNames : Cardinality(x) <= MaxOtherKeys},
        md \in {{"name", "namespace"},
                {"name", "namespace", "annotations", "uid"}}}

RcmFor(e) ==
    IF e = "update_config_map_commit" THEN RcmInputs
    ELSE {c \in RcmInputs :
             /\ Len(c.data.ramen) = 1
             /\ c.data.other = <<>>
             /\ c.metadata = {"name", "namespace"}}

\* ------------------------------ ExternalCluster.get_external_cluster_details
\* the first MaxOut bytes of what the exporter script prints; stdout is a
\* sequence of byte values
MaxOut == 3

OutBytes == {97, 123, 125}

Stdouts == UNION {[1 .. n -> OutBytes] : n \in 0 .. MaxOut}

B64Alphabet ==
    << "A", "B", "C", "D", "E", "F", "G", "H", "I", "J", "K", "L", "M",
       "N", "O", "P", "Q", "R", "S", "T", "U", "V", "W", "X", "Y", "Z",
       "a", "b", "c", "d", "e", "f", "g", "h", "i", "j", "k", "l", "m",
       "n", "o", "p", "q", "r", "s", "t", "u", "v", "w", "x", "y", "z",
       "0", "1", "2", "3", "4", "5", "6", "7", "8", "9", "+", "/" >>

B64(n) == B64Alphabet[n + 1]

\* utils.encode: the base64 text of a byte sequence, three bytes to four
\* characters, "=" padding for a last group of one or two bytes
RECURSIVE encode(_)
encode(b) ==
    IF Len(b) = 0 THEN <<>>
    ELSE IF Len(b) = 1
    THEN << B64(b[1] \div 4), B64((b[1] % 4) * 16), "=", "=" >>
    ELSE IF Len(b) = 2
    THEN << B64(b[1] \div 4), B64((b[1] % 4) * 16 + b[2] \div 16),
            B64((b[2] % 16) * 4), "=" >>
    ELSE << B64(b[1] \div 4), B64((b[1] % 4) * 16 + b[2] \div 16),
            B64((b[2] % 16) * 4 + b[3] \div 64), B64(b[3] % 64) >>
         \o encode(SubSeq(b, 4, Len(b)))

\* mutant: the exit code of the script is not looked at
RunExporterScript_IgnoreRetcode(retcode, out) ==
    [kind |-> "return", out |-> out]

\* lines 207-213: run_exporter_script after exec_cmd returned
RunExporterScript(retcode, out) ==
    IF retcode # 0
    THEN [kind |-> "raise", exc |-> "ExternalClusterExporterRunFailed"]
    ELSE [kind |-> "return", out |-> out]

\* lines 62-70: the rgw endpoint port, the rgw endpoint and the ceph
\* filesystem name are looked up; each lookup raises when nothing is found
GCD_Start ==
    /\ pc["get_external_cluster_details"] = "start"
    /\ \/ /\ Goto("get_external_cluster_details", "export")
          /\ UNCHANGED exc
       \/ \E e \in {"ExternalClusterRGWEndPointPortMissing",
                    "ExternalClusterRGWEndPointMissing",
                    "ExternalClusterCephfsMissing"} :
            Raise("get_external_cluster_details", e)
    /\ UNCHANGED <<ext, core, resources, registry, log>>

\* lines 72-91 with run_exporter_script (lines 183-213): the script is
\* uploaded and run, its output encoded and written to config.EXTERNAL_MODE
GCD_Export ==
    /\ pc["get_external_cluster_details"] = "export"
    /\ \/ /\ Raise("get_external_cluster_details", "CommandFailed")
          /\ UNCHANGED <<xm, log>>
       \/ /\ Emit("run_exporter_script")
          /\ LET r == RunExporterScript(xm.retcode, xm.out)
             IN IF r.kind = "raise"
                THEN /\ Raise("get_external_cluster_details", r.exc)
                     /\ xm' = [xm EXCEPT !.ran = TRUE]
                ELSE /\ Goto("get_external_cluster_details", "returned")
                     /\ xm' = [xm EXCEPT
                                 !.ran = TRUE, !.written = TRUE,
                                 !.external_cluster_details = encode(r.out)]
                     /\ UNCHANGED exc
    /\ UNCHANGED <<ccs, ecc, lt, components, rcm, spm, core, resources,
                   registry>>

\* what the exporter script may answer, and the value stored by an earlier
\* run
XmDefault ==
    [ui_deployment |-> FALSE, ocs_version |-> VERSION_4_10,
     retcode |-> 0, out |-> << 123, 97 >>, ran |-> FALSE, written |-> FALSE,
     before |-> <<>>, external_cluster_details |-> <<>>, waited |-> 0]

XmInputs(e) ==
    CASE e = "get_external_cluster_details" ->
           {[XmDefault EXCEPT !.retcode = rc, !.out = o, !.before = b,
                              !.external_cluster_details = b] :
               rc \in {0, 1, 2}, o \in Stdouts,
               b \in {<<>>, encode(<< 97 >>)}}
      [] e = "deploy_with_external_mode" ->
           {[XmDefault EXCEPT !.retcode = rc, !.ui_deployment = ui,
                              !.ocs_version = v] :
               rc \in {0, 1}, ui \in BOOLEAN,
               v \in {VERSION_4_7, VERSION_4_9}}
      [] OTHER -> {XmDefault}

\* --------------------------------------- Deployment.deploy_with_external_mode
ODF_OPERATOR_NAME == "odf-operator"
OCS_OPERATOR_NAME == "ocs-operator"

\* mutant: only the OCS operator is waited for, whatever the version
OcsOperatorNames_OcsOnly(ocs_version) == << OCS_OPERATOR_NAME >>

\* lines 1049-1056
OcsOperatorNames(ocs_version) ==
    IF ocs_version >= VERSION_4_9
    THEN << ODF_OPERATOR_NAME, OCS_OPERATOR_NAME >>
    ELSE << OCS_OPERATOR_NAME >>

\* the observation logged when the CSV of an operator reached Succeeded
CsvSucceeded(name) ==
    IF name = ODF_OPERATOR_NAME THEN "csv_succeeded_odf" ELSE "csv_succeeded_ocs"

\* lines 1038-1045: namespace and operator group unless the UI deploys, then
\* the catalog source unless the deployment is live
DXM_Start ==
    /\ pc["deploy_with_external_mode"] = "start"
    /\ \/ /\ IF xm.ui_deployment
             THEN UNCHANGED <<log, resources>>
             ELSE /\ Emit("oc_create_olm")
                  /\ Create({"Namespace", "OperatorGroup"})
          /\ IF flags.live_deployment
             THEN Goto2("deploy_with_external_mode", "call_subscribe",
                        "subscribe_ocs", "start")
             ELSE Goto2("deploy_with_external_mode", "call_catalog",
                        "create_catalog_source", "start")
          /\ UNCHANGED exc
       \/ /\ ~ xm.ui_deployment
          /\ Raise("deploy_with_external_mode", "CommandFailed")
          /\ UNCHANGED <<log, resources>>
    /\ UNCHANGED <<ext, cfg, registry, drv, ocsv, cmp, cur_index, loops, i>>

\* lines 1044-1046: create_catalog_source returned, subscribe_ocs is called
DXM_CatalogDone ==
    /\ pc["deploy_with_external_mode"] = "call_catalog"
    /\ Finished("create_catalog_source")
    /\ IF pc["create_catalog_source"] = "raised"
       THEN Raise("deploy_with_external_mode", exc["create_catalog_source"])
       ELSE /\ pc' = [pc EXCEPT !["deploy_with_external_mode"] = "call_subscribe",
                                !["create_catalog_source"] = "idle",
                                !["subscribe_ocs"] = "start"]
            /\ UNCHANGED exc
    /\ UNCHANGED <<ext, core, resources, registry, log>>

\* lines 1046-1057: subscribe_ocs returned, the operator names are chosen
DXM_Subscribed ==
    /\ pc["deploy_with_external_mode"] = "call_subscribe"
    /\ Finished("subscribe_ocs")
    /\ IF pc["subscribe_ocs"] = "raised"
       THEN /\ Raise("deploy_with_external_mode", exc["subscribe_ocs"])
            /\ UNCHANGED xm
       ELSE /\ Goto2("deploy_with_external_mode", "wait_csv",
                     "subscribe_ocs", "idle")
            /\ xm' = [xm EXCEPT !.waited = 0]
            /\ UNCHANGED exc
    /\ UNCHANGED <<ccs, ecc, lt, components, rcm, spm, core, resources,
                   registry, log>>

\* lines 1058-1073: one turn of the loop over the operator names; after the
\* last one the rook log level is set and get_external_cluster_client called
DXM_WaitCsv ==
    /\ pc["deploy_with_external_mode"] = "wait_csv"
    /\ LET names == OcsOperatorNames(xm.ocs_version)
       IN IF xm.waited < Len(names)
          THEN \/ /\ Emit(CsvSucceeded(names[xm.waited + 1]))
                  /\ xm' = [xm EXCEPT !.waited = xm.waited + 1]
                  /\ UNCHANGED <<pc, exc>>
               \/ /\ \E e \in {"TimeoutExpiredError",
                               "ResourceWrongStatusException"} :
                        Raise("deploy_with_external_mode", e)
                  /\ UNCHANGED <<log, xm>>
          ELSE /\ Goto2("deploy_with_external_mode", "call_client",
                        "get_external_cluster_client", "start")
               /\ UNCHANGED <<exc, log, xm>>
    /\ UNCHANGED <<ccs, ecc, lt, components, rcm, spm, core, resources,
                   registry>>

\* lines 1072-1074: the client node is known, the details are fetched
DXM_ClientDone ==
    /\ pc["deploy_with_external_mode"] = "call_client"
    /\ Finished("get_external_cluster_client")
    /\ IF pc["get_external_cluster_client"] = "raised"
       THEN Raise("deploy_with_external_mode",
                  exc["get_external_cluster_client"])
       ELSE /\ pc' = [pc EXCEPT !["deploy_with_external_mode"] = "call_details",
                                !["get_external_cluster_client"] = "idle",
                                !["get_external_cluster_details"] = "start"]
            /\ UNCHANGED exc
    /\ UNCHANGED <<ext, core, resources, registry, log>>

\* lines 1074-1077: the details are stored, the admin keyring is fetched
DXM_DetailsDone ==
    /\ pc["deploy_with_external_mode"] = "call_details"
    /\ Finished("get_external_cluster_details")
    /\ IF pc["get_external_cluster_details"] = "raised"
       THEN /\ Raise("deploy_with_external_mode",
                     exc["get_external_cluster_details"])
            /\ UNCHANGED log
       ELSE \/ /\ Goto2("deploy_with_external_mode", "secret",
                        "get_external_cluster_details", "idle")
               /\ Emit("get_admin_keyring")
               /\ UNCHANGED exc
            \/ /\ Raise("deploy_with_external_mode", "CommandFailed")
               /\ UNCHANGED log
    /\ UNCHANGED <<ext, core, resources, registry>>

\* line 1080: create_external_secret()
DXM_Secret ==
    /\ pc["deploy_with_external_mode"] = "secret"
    /\ \/ /\ Goto("deploy_with_external_mode", "create")
          /\ Emit("create_external_secret")
          /\ Create({"Secret"})
          /\ UNCHANGED exc
       \/ /\ Raise("deploy_with_external_mode", "CommandFailed")
          /\ UNCHANGED <<log, resources>>
    /\ UNCHANGED <<ext, cfg, registry, drv, ocsv, cmp, cur_index, loops, i>>

\* lines 1082-1089: the external StorageCluster is written and created
DXM_Create ==
    /\ pc["deploy_with_external_mode"] = "create"
    /\ \/ /\ Goto("deploy_with_external_mode", "validate")
          /\ Emit("oc_create_external_storagecluster")
          /\ Create({"StorageCluster", "CephCluster"})
          /\ UNCHANGED exc
       \/ /\ Raise("deploy_with_external_mode", "CommandFailed")
          /\ UNCHANGED <<log, resources>>
    /\ UNCHANGED <<ext, cfg, registry, drv, ocsv, cmp, cur_index, loops, i>>

\* lines 1090-1091 with external_post_deploy_validation (lines 1098-1106):
\* the health check of the external cluster, then the toolbox
DXM_Validate ==
    /\ pc["deploy_with_external_mode"] = "validate"
    /\ Emit("external_cluster_health_check")
    /\ \/ /\ Goto("deploy_with_external_mode", "returned")
          /\ Create({"Toolbox"})
          /\ UNCHANGED exc
       \/ /\ \E e \in {"CephHealthException", "CommandFailed"} :
                Raise("deploy_with_external_mode", e)
          /\ UNCHANGED resources
    /\ UNCHANGED <<ext, cfg, registry, drv, ocsv, cmp, cur_index, loops, i>>

\* -------------------------------------------------- setup_persistent_monitoring
\* line 1608: @retry(CommandFailed, tries=8, delay=3)
SPM_TRIES == 8
\* lines 1634 and 1642: the tries of the two inner retries
SPM_INNER_TRIES == 3

\* mutant: every exception leads to another attempt
Retry_AnyException(exception_to_check, mtries, outcome) ==
    IF outcome = "ok" THEN [kind |-> "return"]
    ELSE IF mtries > 1 THEN [kind |-> "again"]
    ELSE [kind |-> "raise", exc |-> outcome]

\* utility.retry.retry: what the decorator does with the outcome of a call
\* when mtries tries are left, the running one included
Retry(exception_to_check, mtries, outcome) ==
    IF outcome = "ok" THEN [kind |-> "return"]
    ELSE IF mtries > 1 /\ outcome \in exception_to_check
    THEN [kind |-> "again"]
    ELSE [kind |-> "raise", exc |-> outcome]

\* the body raised e: the decorator of line 1608 decides
SpmFailed(e) ==
    LET r == Retry({"CommandFailed"}, spm.mtries, e)
    IN /\ IF r.kind = "again"
          THEN /\ Goto("setup_persistent_monitoring", "body")
               /\ UNCHANGED exc
          ELSE Raise("setup_persistent_monitoring", r.exc)
       /\ spm' = [spm EXCEPT
                    !.mtries = IF r.kind = "again" THEN @ - 1 ELSE @,
                    !.outcomes = Append(@, e)]

\* an inner retry saw the outcome o of the function it wraps
SpmInner(o, exception_to_check, next, inner) ==
    LET r == Retry(exception_to_check, spm.inner, o)
    IN CASE r.kind = "return" ->
              /\ Goto("setup_persistent_monitoring", next)
              /\ spm' = [spm EXCEPT !.inner = inner,
                                    !.outcomes = IF next = "returned"
                                                 THEN Append(@, "ok") ELSE @]
              /\ UNCHANGED exc
         [] r.kind = "again" ->
              /\ spm' = [spm EXCEPT !.inner = @ - 1]
              /\ UNCHANGED <<pc, exc>>
         [] OTHER -> SpmFailed(r.exc)

\* lines 1613-1631: storage class, monitoring pods, the config map; 45 s sleep
SPM_Body ==
    /\ pc["setup_persistent_monitoring"] \in {"start", "body"}
    /\ \/ /\ Goto("setup_persistent_monitoring", "respin")
          /\ spm' = [spm EXCEPT !.inner = SPM_INNER_TRIES]
          /\ Emit("create_configmap_cluster_monitoring_pod")
          /\ UNCHANGED exc
       \/ /\ \E e \in {"CommandFailed", "TimeoutExpiredError"} : SpmFailed(e)
          /\ UNCHANGED log
    /\ UNCHANGED <<ccs, ecc, lt, components, rcm, xm, core, resources,
                   registry>>

\* lines 1633-1636: validate_pods_are_respinned_and_running_state, retried
SPM_Respin ==
    /\ pc["setup_persistent_monitoring"] = "respin"
    /\ \E o \in {"ok", "CommandFailed", "ResourceWrongStatusException",
                 "TimeoutExpiredError"} :
         SpmInner(o, {"CommandFailed", "ResourceWrongStatusException"},
                  "pvc", 0)
    /\ UNCHANGED <<ccs, ecc, lt, components, rcm, xm, core, resources,
                   registry, log>>

\* lines 1638-1639: validate_pvc_created_and_bound_on_monitoring_pods
SPM_Pvc ==
    /\ pc["setup_persistent_monitoring"] = "pvc"
    /\ \/ /\ Goto("setup_persistent_monitoring", "mounted")
          /\ spm' = [spm EXCEPT !.inner = SPM_INNER_TRIES]
          /\ UNCHANGED exc
       \/ \E e \in {"CommandFailed", "AssertionError"} : SpmFailed(e)
    /\ UNCHANGED <<ccs, ecc, lt, components, rcm, xm, core, resources,
                   registry, log>>

\* lines 1641-1644: validate_pvc_are_mounted_on_monitoring_pods, retried
SPM_Mounted ==
    /\ pc["setup_persistent_monitoring"] = "mounted"
    /\ \E o \in {"ok", "CommandFailed", "AssertionError",
                 "ResourceWrongStatusException"} :
         SpmInner(o, {"CommandFailed", "AssertionError"}, "returned", 0)
    /\ UNCHANGED <<ccs, ecc, lt, components, rcm, xm, core, resources,
                   registry, log>>

SpmInit == [mtries |-> SPM_TRIES, inner |-> 0, outcomes |-> <<>>]

\* ------------------------------------------------------------ initial states
Entries == {"do_deploy_ocs", "deploy_ocs", "deploy_ocs_via_operator",
            "subscribe_ocs", "test_deployment", "dr_deploy",
            "deploy_dr_policy", "validate_csi_sidecar", "do_deploy_ocp",
            "do_deploy_rdr", "destroy_cluster", "deploy_cluster",
            "create_catalog_source", "get_external_cluster_client",
            "label_and_taint_nodes", "update_config_map_commit",
            "get_external_cluster_details", "deploy_with_external_mode",
          "setup_persistent_monitoring"}

DefaultFlags ==
    [skip_ocs_deployment |-> FALSE, gather_on_deploy_failure |-> TRUE,
     external_mode |-> FALSE, mcg_only_deployment |-> FALSE,
     disable_cephfs |-> FALSE, monitoring |-> "none",
     live_deployment |-> FALSE, subscription_plan_approval |-> "None",
     platform |-> "aws", rbd_dr_scenario |-> TRUE,
     skip_ocp_deployment |-> FALSE, dr_metadata_store |-> "awss3",
     network_split_setup |-> FALSE, deploy_acm_hub_cluster |-> FALSE,
     ocp_version |-> VERSION_4_10, install_lvmo |-> FALSE,
     skip_submariner_deployment |-> FALSE]

Approvals == {"None", "Manual", "Automatic"}

\* the flag combinations a behaviour entered at e starts from
FlagsFor(e) ==
    CASE e = "do_deploy_ocs" ->
           {[DefaultFlags EXCEPT !.skip_ocs_deployment = a,
                                 !.gather_on_deploy_failure = b,
                                 !.disable_cephfs = TRUE] :
               a \in BOOLEAN, b \in BOOLEAN}
      [] e = "test_deployment" ->
           {[DefaultFlags EXCEPT !.skip_ocs_deployment = a] : a \in BOOLEAN}
      [] e = "deploy_ocs" ->
           {[DefaultFlags EXCEPT !.external_mode = a, !.mcg_only_deployment = b,
                                 !.disable_cephfs = c, !.monitoring = m,
                                 !.platform = pl] :
               a \in BOOLEAN, b \in BOOLEAN, c \in BOOLEAN,
               m \in {"none", "persistent", "telemeter"},
               pl \in {"aws", "vsphere"}}
      [] e = "subscribe_ocs" ->
           {[DefaultFlags EXCEPT !.subscription_plan_approval = a,
                                 !.live_deployment = b] :
               a \in Approvals, b \in BOOLEAN}
      [] e = "deploy_ocs_via_operator" ->
           {[DefaultFlags EXCEPT !.platform = pl, !.mcg_only_deployment = mc,
                                 !.live_deployment = lv] :
               pl \in Platforms, mc \in BOOLEAN, lv \in BOOLEAN}
      [] e = "dr_deploy" ->
           {[DefaultFlags EXCEPT !.rbd_dr_scenario = a] : a \in BOOLEAN}
      [] e = "do_deploy_ocp" ->
           {[DefaultFlags EXCEPT !.skip_ocp_deployment = a,
                                 !.gather_on_deploy_failure = b] :
               a \in BOOLEAN, b \in BOOLEAN}
      [] e = "do_deploy_rdr" ->
           {[DefaultFlags EXCEPT !.rbd_dr_scenario = FALSE,
                                 !.dr_metadata_store = m] :
               m \in {"awss3", "mcg", "other"}}
      [] e = "deploy_cluster" ->
           {[DefaultFlags EXCEPT !.skip_ocp_deployment = a,
                                 !.skip_ocs_deployment = b,
                                 !.network_split_setup = c,
                                 !.deploy_acm_hub_cluster = c,
                                 !.ocp_version = IF a THEN VERSION_4_7
                                                 ELSE VERSION_4_10,
                                 !.install_lvmo = c,
                                 !.skip_submariner_deployment = ~ c,
                                 !.disable_cephfs = TRUE] :
               a \in BOOLEAN, b \in BOOLEAN, c \in BOOLEAN}
      [] e = "destroy_cluster" ->
           {[DefaultFlags EXCEPT !.platform = pl, !.skip_ocs_deployment = a] :
               pl \in {"aws", "powervs"}, a \in BOOLEAN}
      [] e = "deploy_with_external_mode" ->
           {[DefaultFlags EXCEPT !.live_deployment = a] : a \in BOOLEAN}
      [] OTHER -> {DefaultFlags}

\* the registries a behaviour entered at e starts from
RegistriesFor(e) ==
    LET multi == {[n |-> n, multi |-> TRUE, acm |-> a, cur |-> c] :
                     n \in 2 .. MaxClusters, a \in 0 .. (MaxClusters - 1),
                     c \in 0 .. (MaxClusters - 1)}
        single == {[n |-> 1, multi |-> FALSE, acm |-> NoIndex, cur |-> 0]}
    IN CASE e \in {"do_deploy_ocs", "test_deployment", "do_deploy_rdr"} ->
              single \cup {r \in multi : r.acm < r.n /\ r.cur < r.n}
         [] e = "deploy_cluster" ->
              single \cup {r \in multi : r.acm \in {0, r.n - 1} /\ r.cur = 0}
         [] e \in {"dr_deploy", "deploy_dr_policy"} ->
              {r \in multi : r.acm < r.n /\ r.cur < r.n
                             /\ (e = "deploy_dr_policy" => r.cur = r.acm)}
         [] OTHER -> single

AllProfiles == {ProfileNames[k] : k \in 1 .. MaxClusters} \cup {OtherProfile}

MaxTemplate == 2

Templates == UNION {[1 .. n -> {"", "PLACEHOLDER"}] : n \in 1 .. MaxTemplate}

DrInputsFor(e) ==
    IF e = "deploy_dr_policy"
    THEN {[template |-> t, s3profiles |-> ps, policy |-> <<>>, mirroring |-> <<>>] :
             t \in Templates, ps \in SUBSET AllProfiles}
    ELSE {[template |-> t, s3profiles |-> ps, policy |-> <<>>, mirroring |-> <<>>] :
             t \in (IF e = "deploy_cluster" THEN {}
                    ELSE {[k \in 1 .. MaxTemplate |-> ""]})
                   \cup {[k \in 1 .. MaxTemplate |-> "PLACEHOLDER"]},
             ps \in {{}, AllProfiles}}

\* config.COMPONENTS as the configuration files and the command line set it
ComponentsBefore(f) ==
    [c \in ComponentKeys |-> IF c = "cephfs" THEN f.disable_cephfs ELSE FALSE]

InitFor(e) ==
    \E r \in RegistriesFor(e) :
    \E pre \in {{}, {0}, 0 .. (r.n - 1)} :
      /\ entry = e
      /\ pc = [p \in Procs |-> IF p = e THEN "start" ELSE "idle"]
      /\ exc = [p \in Procs |-> "none"]
      /\ nclusters = r.n
      /\ multicluster = r.multi
      /\ acm_index = r.acm
      /\ cur_index = r.cur
      /\ base_index = r.cur
      /\ loops = [l \in Loops |-> [before |-> NoIndex, after |-> NoIndex,
                                   status |-> "none"]]
      /\ flags \in FlagsFor(e)
      /\ ccs \in (IF e = "create_catalog_source" THEN CcsInputs
                  ELSE {CcsDefault})
      /\ ecc \in {[nodes |-> l, result |-> [kind |-> "none"]] :
                    l \in (IF e = "get_external_cluster_client"
                           THEN ExternalNodeRoles
                           ELSE IF e = "deploy_with_external_mode"
                           THEN {l \in NodeLists(1) : l[1].name = 1}
                           ELSE {<<>>})}
      /\ lt \in (IF e = "label_and_taint_nodes" THEN LtInputs ELSE {LtDefault})
      /\ components = ComponentsBefore(flags)
      /\ rcm \in RcmFor(e)
      /\ xm \in XmInputs(e)
      /\ spm = SpmInit
      /\ run \in {[is_ocp_deployment_failed |-> FALSE, cluster_running |-> b] :
                    b \in (IF e \in {"do_deploy_ocp", "deploy_cluster"}
                           THEN BOOLEAN ELSE {TRUE})}
      /\ (e \notin {"do_deploy_ocs", "deploy_ocs", "destroy_cluster"} => pre = {})
      /\ resources = [c \in 0 .. (r.n - 1) |->
                         IF c \in pre THEN DeployedKinds ELSE {}]
      /\ registry \in [0 .. (r.n - 1) -> {IF e = "deploy_ocs" THEN "Removed"
                                          ELSE "Managed", "Managed"}]
      /\ log = <<>>
      /\ i = 0
      /\ it = 0
      /\ restore_ctx_index = NoIndex
      /\ timeout = 0
      /\ polls = NoPolls
      /\ health = <<>>
      /\ ocs_call = [calls |-> 0, existed |-> FALSE, resources |-> {}, registry |-> "Managed"]
      /\ pods = [c \in 0 .. (r.n - 1) |-> "unknown"]
      /\ dr \in DrInputsFor(e)
      /\ plan = DefaultPlan
      /\ cluster_data = BaseTemplate

Init == \E e \in Entries : InitFor(e)

Next ==
    \/ DDO_Start \/ DDO_Loop \/ DDO_Return \/ DDO_AfterReset \/ DDO_VerifyLoop
    \/ SUB_Start \/ SUB_Create \/ SUB_WaitSubscription \/ SUB_Approval
    \/ SUB_WaitCsv
    \/ VO_Start \/ VO_Subscribed \/ VO_Compose \/ VO_Create
    \/ OCS_Start \/ OCS_CheckCeph \/ OCS_Install \/ OCS_External
    \/ OCS_ViaOperatorDone \/ OCS_WaitPods \/ OCS_CephFS \/ OCS_Monitoring
    \/ OCS_Health \/ OCS_Skew \/ OCS_PatchSC \/ OCS_CallAgain
    \/ TD_Start \/ TD_Loop
    \/ CSI_Start \/ CSI_Loop \/ CSI_After
    \/ VMP_Start \/ VMP_Loop
    \/ CMP_Start \/ CMP_Validated \/ CMP_QueryMirroring \/ CMP_Loop
    \/ CMP_SidecarDone
    \/ POL_Start \/ POL_Wait
    \/ DR_Start \/ DR_Orchestrator \/ DR_HubOperator \/ DR_Rbd
    \/ DR_MirrorConfigured \/ DR_PolicyDone
    \/ OCP_Start \/ OCP_Deploy \/ OCP_Post
    \/ RDR_Start \/ RDR_Deployed
    \/ DES_Start \/ DES_DestroyOcp
    \/ DC_Start \/ DC_OcpDone
    \/ (\E p \in {"netsplit", "acm", "lvmo", "submariner"} : DC_Simple(p))
    \/ DC_Ocs \/ DC_OcsDone \/ DC_Rdr \/ DC_RdrDone
    \/ CCS_Start \/ CCS_Select \/ CCS_Apply \/ CCS_Wait
    \/ ECC_Call
    \/ LT_Start \/ LT_Label \/ LT_Taint
    \/ UCM_Commit
    \/ GCD_Start \/ GCD_Export
    \/ DXM_Start \/ DXM_CatalogDone \/ DXM_Subscribed \/ DXM_WaitCsv
    \/ DXM_ClientDone \/ DXM_DetailsDone \/ DXM_Secret \/ DXM_Create
    \/ DXM_Validate
    \/ SPM_Body \/ SPM_Respin \/ SPM_Pvc \/ SPM_Mounted

Spec == Init /\ [][Next]_vars

\* setup_persistent_monitoring alone; the interpreter runs the call on, so
\* a step that can be taken is taken in the end
SpmNext == SPM_Body \/ SPM_Respin \/ SPM_Pvc \/ SPM_Mounted

SpmSpec ==
    /\ InitFor("setup_persistent_monitoring")
    /\ [][SpmNext]_vars
    /\ WF_vars(SpmNext)

\* ===================================================================== claims
Evs(ev) == {k \in DOMAIN log : log[k].ev = ev}

NonHub == {c \in Clusters : c # acm_index}

\* C1: every fan-out loop that switches the context leaves the registry at the
\* index that was current before the loop, on normal completion and when a
\* per-cluster step raises.
C1_ContextRestored ==
    \A l \in Loops :
        loops[l].status \in {"completed", "raised"}
            => loops[l].after = loops[l].before

\* C2: with arbiter_deployment set, the composed StorageCluster never has
\* spec.flexibleScaling = true, whatever the other flags are.
C2_ArbiterExcludesFlexibleScaling ==
    plan.arbiter_deployment
        => ~ (Has(cluster_data, "spec.flexibleScaling")
              /\ cluster_data["spec.flexibleScaling"] = TRUE)

C2_Witness ==
    /\ pc["deploy_ocs_via_operator"] = "create"
    /\ plan.arbiter_deployment
    /\ plan.local_storage
    /\ plan.ocs_version >= VERSION_4_7
    /\ plan.zone_num < 3
    /\ cluster_data["spec.arbiter.enable"] = TRUE

\* C3: when a CephCluster already exists, deploy_ocs returns without raising
\* and without creating a resource; called again after a deploy it leaves the
\* cluster (resources and registry state) as the earlier call left it.
C3_ExistingCephClusterNoOp ==
    (ocs_call.existed /\ pc["deploy_ocs"] \notin {"idle", "start"})
        => /\ pc["deploy_ocs"] \in {"check_ceph", "returned"}
           /\ resources[cur_index] = ocs_call.resources
           /\ (ocs_call.calls >= 2 => registry[cur_index] = ocs_call.registry)

C3_Witness ==
    /\ ocs_call.existed
    /\ ocs_call.calls >= 2
    /\ pc["deploy_ocs"] = "returned"
    /\ "StorageCluster" \in resources[cur_index]

\* the events of the subscribe_ocs call in progress (or the last one)
LastCreate == IF Evs("create_subscription") = {} THEN 0
              ELSE CHOOSE k \in Evs("create_subscription") :
                       \A j \in Evs("create_subscription") : j <= k

Approved == {k \in Evs("approve_install_plan") : k > LastCreate}

\* C4: with approval mode "Manual" exactly one install-plan approval is made,
\* after the subscription is observed and before the wait for the CSV; with
\* any other mode (or none) no approval is made at all.
C4_ManualApprovalOnce ==
    IF flags.subscription_plan_approval = "Manual"
    THEN /\ Cardinality(Approved) <= 1
         /\ \A a \in Approved :
               /\ \E o \in Evs("subscription_observed") : LastCreate < o /\ o < a
               /\ \A w \in Evs("wait_for_csv") : w > LastCreate => a < w
         /\ \A w \in Evs("wait_for_csv") : w > LastCreate => Approved # {}
    ELSE Evs("approve_install_plan") = {}

C4_Witness ==
    /\ flags.subscription_plan_approval = "Manual"
    /\ pc["subscribe_ocs"] = "returned"
    /\ Cardinality(Approved) = 1

\* C5 (as claimed): when some non-hub cluster has no S3 profile matching it,
\* deploy_dr_policy raises RDRDeploymentException and no DRPolicy is created.
C5_MissingProfileRaises ==
    (/\ pc["deploy_dr_policy"] \notin {"idle", "start"}
     /\ \E c \in NonHub : ~ \E p \in dr.s3profiles : NameIn(c, p))
        => /\ pc["deploy_dr_policy"] = "raised"
           /\ exc["deploy_dr_policy"] = "RDRDeploymentException"
           /\ \A c \in Clusters : "DRPolicy" \notin resources[c]

\* C6: validate_csi_sidecar polls at most 10 times, succeeds at the first poll
\* that reports the expected count, and raises exactly when all 10 polls
\* mismatch.
C6_SidecarPolling ==
    /\ polls.n <= SIDECAR_POLLS
    /\ polls.matched <= 1
    /\ (polls.matched = 1 => /\ polls.last = RBD_SIDECAR_COUNT
                             /\ pc["validate_csi_sidecar"] \in {"after", "returned"})
    /\ (pc["validate_csi_sidecar"] = "returned" => polls.matched = 1)
    /\ (pc["validate_csi_sidecar"] = "raised"
            => /\ polls.n = SIDECAR_POLLS
               /\ polls.matched = 0
               /\ exc["validate_csi_sidecar"] = "RBDSideCarContainerException")
    /\ (polls.matched = 0 /\ polls.n < SIDECAR_POLLS
            => pc["validate_csi_sidecar"] \in {"idle", "start", "loop"})

C6_Witness ==
    /\ pc["validate_csi_sidecar"] = "returned"
    /\ polls.n = SIDECAR_POLLS
    /\ polls.last = RBD_SIDECAR_COUNT

\* C7 (as claimed): deploy_ocs never returns normally after a final health
\* check that failed without the clock-skew signature.
C7_OtherHealthFailureFatal ==
    pc["deploy_ocs"] = "returned"
        => ~ \E k \in DOMAIN health : health[k].result = "other"

NtpLogged == \E k \in Evs("ntp_resync") : log[k].ctx = cur_index

SkewRetried ==
    /\ Len(health) >= 1
    /\ health[1].result = "clock_skew"
    /\ pc["deploy_ocs"] # "skew"

\* C8 (as claimed): after a clock-skew failure an NTP resync is triggered and
\* the health check runs exactly once more with 60 tries; a failed retry
\* propagates.
C8_SkewResyncAndRetry ==
    SkewRetried
        => /\ NtpLogged
           /\ Len(health) = 2
           /\ health[2].tries = HEALTH_TRIES_RETRY
           /\ (health[2].result # "ok" => pc["deploy_ocs"] = "raised")

\* C8 (amended): the NTP resync happens on vSphere and on no other platform;
\* on every platform the health check runs exactly once more with 60 tries,
\* a failed retry propagates and there is no third check.
C8_SkewRetryOnce ==
    /\ Len(health) <= 2
    /\ (Len(health) >= 1 => health[1].tries = HEALTH_TRIES)
    /\ (Len(health) = 2 => health[1].result = "clock_skew")
    /\ (SkewRetried
          => /\ (NtpLogged <=> flags.platform = "vsphere")
             /\ Len(health) = 2
             /\ health[2].tries = HEALTH_TRIES_RETRY
             /\ (health[2].result # "ok"
                   => /\ pc["deploy_ocs"] = "raised"
                      /\ exc["deploy_ocs"] = "CephHealthException"))

C8_Witness ==
    /\ SkewRetried
    /\ flags.platform = "aws"
    /\ health[2].result = "clock_skew"
    /\ pc["deploy_ocs"] = "raised"

Before(k, ev) == \E j \in Evs(ev) : j < k

\* C9 (as claimed): DR namespace, orchestrator, DR hub operator and DRPolicy
\* are all created and ready before any step that reaches a non-hub cluster.
C9_HubBeforeFanOut ==
    entry = "dr_deploy"
        => \A k \in DOMAIN log :
              log[k].ctx # acm_index
                 => /\ Before(k, "orchestrator_ready")
                    /\ Before(k, "dr_hub_operator_ready")
                    /\ Before(k, "drpolicy_Succeeded")

\* C9 (amended): the DR namespace is created on all clusters first; every
\* later step that reaches a non-hub cluster comes after the orchestrator and
\* the DR hub operator were observed ready, and before the DRPolicy is created.
C9_OperatorsBeforeFanOut ==
    entry = "dr_deploy"
        => \A k \in DOMAIN log :
              /\ (log[k].ev = "create_dr_namespace"
                    => \A j \in 1 .. k : log[j].ev = "create_dr_namespace")
              /\ (log[k].ctx # acm_index /\ log[k].ev # "create_dr_namespace"
                    => /\ Before(k, "orchestrator_ready")
                       /\ Before(k, "dr_hub_operator_ready")
                       /\ ~ Before(k, "create_drpolicy"))

C9_Witness ==
    /\ entry = "dr_deploy"
    /\ Evs("create_s3_secret") # {}
    /\ Evs("rbd_mirror_pod_check") # {}
    /\ Evs("drpolicy_Succeeded") # {}

\* C10 (as claimed): validate_mirror_peer returns normally only if the
\* token-exchange-agent pod was seen Running on every non-hub cluster.
C10_AgentsRunning ==
    pc["validate_mirror_peer"] = "returned"
        => \A c \in NonHub : pods[c] = "Running"

\* C11: an RBD-mirror pod check is made on a cluster only after that cluster's
\* mirroring flag was queried and seen "true"; when any cluster answers
\* something else, ResourceWrongStatusException is raised and no mirror-pod
\* check is made anywhere.
C11_MirrorCheckAfterFlag ==
    /\ \A k \in Evs("rbd_mirror_pod_check") :
          /\ log[k].ctx \in DOMAIN dr.mirroring
          /\ dr.mirroring[log[k].ctx] = "true"
          /\ \E j \in Evs("query_mirroring") : j < k /\ log[j].ctx = log[k].ctx
    /\ ((\E c \in DOMAIN dr.mirroring : dr.mirroring[c] # "true")
          => /\ Evs("rbd_mirror_pod_check") = {}
             /\ pc["configure_mirror_peer"] = "raised"
             /\ exc["configure_mirror_peer"] = "ResourceWrongStatusException"
             /\ pc["validate_csi_sidecar"] = "idle")

C11_Witness ==
    /\ nclusters = 3
    /\ Cardinality({log[k].ctx : k \in Evs("rbd_mirror_pod_check")}) = 2
    /\ pc["configure_mirror_peer"] = "returned"

HubOnlyEvents == {"create_orchestrator", "create_dr_operatorgroup",
                  "create_dr_hub_operator", "create_mirror_peer",
                  "create_drpolicy", "apply_ramen_config"}

\* C13: every hub-only command of the DR deployment is issued while the
\* current context is the ACM hub, for every cluster count and hub position.
C13_HubOnlyOnHub ==
    \A k \in DOMAIN log :
        log[k].ev \in HubOnlyEvents => log[k].ctx = acm_index

C13_Witness ==
    /\ nclusters = 3
    /\ acm_index = 1
    /\ base_index # acm_index
    /\ \A e \in HubOnlyEvents : Evs(e) # {}

\* C15 (as claimed): whenever the DR deployment creates the DRPolicy, the S3
\* secrets were distributed before, to every non-hub cluster and not to the hub.
C15_SecretsBeforePolicy ==
    entry # "deploy_dr_policy"
        => /\ \A k \in Evs("create_drpolicy") :
                 \A c \in NonHub :
                    \E j \in Evs("create_s3_secret") : j < k /\ log[j].ctx = c
           /\ \A j \in Evs("create_s3_secret") : log[j].ctx # acm_index

\* C16: the Ramen configuration is applied only after the DRPolicy was seen
\* "Succeeded"; when the poll times out deploy_dr_policy raises
\* TimeoutExpiredError and the Ramen configuration is not touched.
C16_RamenAfterPolicySucceeded ==
    /\ \A k \in Evs("apply_ramen_config") : Before(k, "drpolicy_Succeeded")
    /\ (pc["deploy_dr_policy"] = "returned" => Evs("drpolicy_Succeeded") # {})
    /\ ((Evs("create_drpolicy") # {} /\ Evs("drpolicy_Succeeded") = {}
           /\ pc["deploy_dr_policy"] # "wait")
          => /\ pc["deploy_dr_policy"] = "raised"
             /\ exc["deploy_dr_policy"] = "TimeoutExpiredError"
             /\ Evs("apply_ramen_config") = {}
             /\ pc["dr_deploy"] # "returned")

C16_Witness ==
    /\ pc["dr_deploy"] = "returned"
    /\ Evs("apply_ramen_config") # {}
    /\ Evs("drpolicy_Succeeded") # {}

Collected(ev) == {k \in Evs(ev) : log[k].ctx = cur_index}

MdsFailed == {k \in Evs("mds_failed") : log[k].ctx = cur_index}

\* C19: a failed CephFS MDS validation in deploy_ocs is only logged: the run
\* goes on to the monitoring / registry backend switch, the console plugin and
\* the final health check, and whatever aborts it later is not the validation.
C19_MdsFailureIsSoft ==
    (MdsFailed # {} /\ ~ ocs_call.existed
       /\ pc["deploy_ocs"] \notin {"idle", "start"})
        => /\ pc["deploy_ocs"] \in {"monitoring", "health", "skew", "patch_sc",
                                    "returned", "raised"}
           /\ (pc["deploy_ocs"] = "raised"
                 => exc["deploy_ocs"] \in {"CommandFailed", "CephHealthException"})
           /\ (pc["deploy_ocs"] \in {"health", "skew", "patch_sc", "returned"}
                 => \A m \in MdsFailed :
                       /\ \E r \in Evs("registry_backend") :
                             /\ m < r
                             /\ \E c \in Evs("console_plugin") : r < c
                       /\ (flags.monitoring # "none"
                             => \E o \in Evs("monitoring") : m < o))
           /\ (pc["deploy_ocs"] \in {"skew", "patch_sc", "returned"}
                 => /\ Len(health) >= 1
                    /\ health[1].tries = HEALTH_TRIES)

C19_Witness ==
    /\ MdsFailed # {}
    /\ pc["deploy_ocs"] = "returned"
    /\ Evs("console_plugin") # {}
    /\ Len(health) >= 1

DrCommands == HubOnlyEvents \cup {"create_dr_namespace", "create_s3_secret",
                                  "query_mirroring", "rbd_mirror_pod_check",
                                  "token_exchange_agent"}

\* C14: with dr_metadata_store = "mcg" the construction of
\* MultiClusterDROperatorsDeploy raises NotImplementedError before any context
\* switch and before any command is sent; deploy() is never started and the S3
\* store is not used instead.
C14_McgStoreRaisesAtConstruction ==
    (multicluster /\ flags.dr_metadata_store = "mcg"
       /\ pc["do_deploy_rdr"] \notin {"idle", "start"})
        => /\ pc["do_deploy_rdr"] = "raised"
           /\ exc["do_deploy_rdr"] = "NotImplementedError"
           /\ pc["dr_deploy"] = "idle"
           /\ cur_index = base_index
           /\ \A k \in DOMAIN log : log[k].ev \notin DrCommands
           /\ \A c \in Clusters : "S3Secret" \notin resources[c]

C14_Witness ==
    /\ multicluster
    /\ flags.dr_metadata_store = "mcg"
    /\ base_index # acm_index
    /\ pc["do_deploy_rdr"] = "raised"

\* C18: when the OCP cluster is already running, or skip_ocp_deployment is
\* set, do_deploy_ocp returns without calling deploy_ocp or post_ocp_deploy,
\* without setting is_ocp_deployment_failed and without raising.
C18_OcpBringUpNoOp ==
    ((run.cluster_running \/ flags.skip_ocp_deployment)
       /\ pc["do_deploy_ocp"] \notin {"idle", "start"})
        => /\ pc["do_deploy_ocp"] = "returned"
           /\ exc["do_deploy_ocp"] = "none"
           /\ Evs("deploy_ocp") = {}
           /\ Evs("post_ocp_deploy") = {}
           /\ ~ run.is_ocp_deployment_failed
           /\ \A c \in Clusters : "OCP" \notin resources[c]

C18_Witness ==
    /\ run.cluster_running
    /\ ~ flags.skip_ocp_deployment
    /\ pc["do_deploy_ocp"] = "returned"

\* ------------------------------------------------ deploy_cluster claims
Pos(p) == CHOOSE n \in DOMAIN PhaseOrder : PhaseOrder[n] = p

Phases == {PhaseOrder[n] : n \in DOMAIN PhaseOrder}

\* C12: deploy_cluster starts its phases in the order OCP bring-up,
\* network-split setup, ACM hub, LVM operator, Submariner, storage operator,
\* Regional-DR; each phase starts at most once, a phase starts only after
\* every earlier phase that started has returned normally, and once a phase
\* has raised no later phase starts.
C12_PhaseOrder ==
    /\ \A p \in Phases : Cardinality(Evs(StartEv[p])) <= 1
    /\ \A a \in Phases, b \in Phases :
         Pos(a) < Pos(b) =>
           \A k \in Evs(StartEv[b]) :
             \A j \in Evs(StartEv[a]) :
               \E d \in Evs(DoneEv[a]) : j < d /\ d < k
    /\ \A p \in Phases :
         \A d \in Evs(DoneEv[p]) : \E j \in Evs(StartEv[p]) : j < d
    /\ (pc["deploy_cluster"] = "raised"
          => \E p \in Phases :
               /\ Evs(StartEv[p]) # {} /\ Evs(DoneEv[p]) = {}
               /\ \A q \in Phases : Pos(p) < Pos(q) => Evs(StartEv[q]) = {})

C12_Witness ==
    /\ entry = "deploy_cluster"
    /\ multicluster
    /\ pc["deploy_cluster"] = "returned"
    /\ \A p \in Phases : Evs(StartEv[p]) # {} /\ Evs(DoneEv[p]) # {}
    /\ Evs("deploy_ocs") # {}
    /\ Evs("create_drpolicy") # {}

CcsApplied == ccs.applied # << "unset" >>

\* C21 (as claimed): whenever the caller passes an explicit image, the applied
\* catalog source uses that image, also when the stage override is configured.
C21_ExplicitImageWins ==
    (CcsApplied /\ ccs.image # <<>>)
      => RSplit(ccs.applied)[1] = RSplit(ccs.image)[1]

\* C22: the catalog source manifest is applied only after the default source
\* was disabled and, for a stage image, after the image-content-source-policy
\* was applied and the machine-config pools were then seen steady; the
\* function returns only after the catalog source was seen READY.
C22_PrerequisitesBeforeApply ==
    /\ \A k \in Evs("apply_catalog_source") :
         /\ Before(k, "disable_default_source")
         /\ ccs.stage_rh_osbs =>
              \E m \in Evs("mcp_steady") :
                 /\ m < k
                 /\ Before(m, "apply_icsp")
    /\ (pc["create_catalog_source"] = "returned"
          => \E r \in Evs("catalog_ready") : Before(r, "apply_catalog_source"))
    /\ \A r \in Evs("catalog_ready") : Before(r, "apply_catalog_source")

C22_Witness ==
    /\ pc["create_catalog_source"] = "returned"
    /\ ccs.stage_rh_osbs
    /\ Evs("mcp_steady") # {}
    /\ CcsApplied

\* ------------------------------------------ external cluster helper claims
NoClientNode == \A k \in DOMAIN ecc.nodes : "client" \notin ecc.nodes[k].role

\* C23 (as claimed): when no node has the client role the call raises at
\* once; it does not return the connection details of some other node.
C23_NoClientRaises ==
    (entry = "get_external_cluster_client" /\ NoClientNode
       /\ Finished("get_external_cluster_client"))
      => /\ pc["get_external_cluster_client"] = "raised"
         /\ ecc.result.kind = "raise"

\* ------------------------------------------------ label_and_taint_nodes claims
LtShort ==
    \/ WorkerNodes(lt.nodes) = <<>>
    \/ /\ Distributed(lt).ok
       /\ \/ Len(Distributed(lt).nodes) < ToLabel(lt)
          \/ Len(Distributed(lt).nodes) < lt.nodes_to_taint

\* C24: with no worker node, or fewer distributed worker nodes than the number
\* to label or to taint, label_and_taint_nodes raises
\* UnavailableResourceException before any label or taint command: no command
\* is issued and no node is labelled or tainted.
C24_ShortageRaisesBeforeCommands ==
    (entry = "label_and_taint_nodes" /\ LtShort)
      => /\ pc["label_and_taint_nodes"] \in {"start", "raised"}
         /\ (pc["label_and_taint_nodes"] = "raised"
               => exc["label_and_taint_nodes"] = "UnavailableResourceException")
         /\ lt.labelled = {} /\ lt.tainted = {}
         /\ Evs("label_nodes") \cup Evs("taint_nodes") = {}

C24_Witness ==
    /\ entry = "label_and_taint_nodes"
    /\ pc["label_and_taint_nodes"] = "raised"
    /\ WorkerNodes(lt.nodes) # <<>>
    /\ Distributed(lt).ok
    /\ Len(Distributed(lt).nodes) >= ToLabel(lt)
    /\ ToLabel(lt) > 0
    /\ Len(Distributed(lt).nodes) < lt.nodes_to_taint

\* ------------------------------------------- StorageCluster composition claims
Composed ==
    /\ entry = "deploy_ocs_via_operator"
    /\ pc["deploy_ocs_via_operator"] \in {"create", "returned"}
    /\ ~ flags.mcg_only_deployment

\* C25 (as claimed): composing the StorageCluster reads the configuration
\* without writing it: config.COMPONENTS is, at every point of
\* deploy_ocs_via_operator, what it was before the call.
C25_FlagsReadOnly == components = ComponentsBefore(flags)

\* C26: with arbiter_deployment set, local_storage unset, a platform other
\* than bare metal and device size N, the composed spec has
\* spec.arbiter.enable = true, replica 4 and storage request "<N>Gi" in the
\* first device set, and no spec.flexibleScaling key.
C26_ArbiterScenario ==
    (Composed /\ plan.arbiter_deployment /\ ~ plan.local_storage
       /\ plan.platform # "baremetal")
      => /\ Has(cluster_data, "spec.arbiter.enable")
         /\ cluster_data["spec.arbiter.enable"] = TRUE
         /\ cluster_data["spec.storageDeviceSets[0].replica"] = 4
         /\ cluster_data["spec.storageDeviceSets[0].storage"]
              = << plan.device_size, "Gi" >>
         /\ ~ Has(cluster_data, "spec.flexibleScaling")

C26_Witness ==
    /\ Composed
    /\ plan.arbiter_deployment /\ ~ plan.local_storage
    /\ plan.platform = "aws"
    /\ plan.device_size # DEVICE_SIZE
    /\ plan.zone_num < 3
    /\ cluster_data["spec.storageDeviceSets[0].replica"] = 4

Presets == {AwsI3Resources, MdsPreset, NoobaaPreset}

\* C27: with allow_lower_instance_requirements set, the device-set resources
\* and the resources of every component of the fixed list are the zeroed-out
\* override, and no value of a platform preset (AWS i3 device-set limits, AWS
\* LSO mds / noobaa presets) is left anywhere in the composed spec.
C27_LowerRequirementsOverride ==
    (Composed /\ plan.allow_lower_instance_requirements)
      => /\ cluster_data["spec.storageDeviceSets[0].resources"] = NoneResources
         /\ Has(cluster_data, "spec.resources")
         /\ LowerResourceNames \subseteq DOMAIN cluster_data["spec.resources"]
         /\ \A r \in LowerResourceNames :
               cluster_data["spec.resources"][r] = NoneResources
         /\ \A r \in DOMAIN cluster_data["spec.resources"] :
               cluster_data["spec.resources"][r] \notin Presets

C27_Witness ==
    /\ Composed
    /\ plan.allow_lower_instance_requirements
    /\ plan.local_storage /\ plan.platform = "aws"
    /\ plan.worker_instance_type = AWS_LSO_WORKER_INSTANCE
    /\ plan.ocs_version >= VERSION_4_5
    /\ cluster_data["spec.storageDeviceSets[0].resources"] = NoneResources

\* the number a string of digits denotes
RECURSIVE Num(_)
Num(digits) ==
    IF digits = <<>> THEN 0
    ELSE 10 * Num(SubSeq(digits, 1, Len(digits) - 1)) + digits[Len(digits)]

\* C28 (as claimed): on bare metal the storage request is the numerically
\* smallest of the discovered PV sizes.
C28_SmallestPvSize ==
    (Composed /\ plan.platform = "baremetal")
      => \A k \in DOMAIN plan.pv_size_list :
            Num(cluster_data["spec.storageDeviceSets[0].storage"])
              <= Num(plan.pv_size_list[k])

\* C29: with encryption_at_rest requested on an OCS version below 4.6,
\* deploy_ocs_via_operator raises UnsupportedFeatureError and no StorageCluster
\* is created in that run.
C29_EncryptionGate ==
    (entry = "deploy_ocs_via_operator"
       /\ plan.encryption_at_rest /\ plan.ocs_version < VERSION_4_6)
      => /\ pc["deploy_ocs_via_operator"] = "raised"
         /\ exc["deploy_ocs_via_operator"] = "UnsupportedFeatureError"
         /\ Evs("create_storagecluster") = {}
         /\ "StorageCluster" \notin resources[cur_index]

C29_Witness ==
    /\ entry = "deploy_ocs_via_operator"
    /\ exc["deploy_ocs_via_operator"] = "UnsupportedFeatureError"
    /\ plan.encryption_at_rest /\ plan.ocs_version < VERSION_4_6
    /\ "StorageSystem" \in resources[cur_index]

\* ------------------------------------------- update_config_map_commit claims
\* reading the written document back: the key of a line, what follows the
\* colon, and the lines of the block below it
RECURSIVE KeyOf(_)
KeyOf(text) ==
    IF text = <<>> \/ Head(text) = ":" THEN <<>>
    ELSE << Head(text) >> \o KeyOf(Tail(text))

Rest(text) == SubSeq(text, Len(KeyOf(text)) + 2, Len(text))

RECURSIVE BlockBelow(_, _)
BlockBelow(lines, a) ==
    IF a + 1 > Len(lines) \/ lines[a + 1].indent <= 1 THEN <<>>
    ELSE << [k |-> lines[a + 1].text[1], v |-> lines[a + 1].text[3]] >>
         \o BlockBelow(lines, a + 1)

\* a "|" must end its line
WellFormed(lines) ==
    \A a \in DOMAIN lines :
        LET r == Rest(lines[a].text)
        IN (r # <<>> /\ Head(r) = "|") => Tail(r) = <<>>

RamenLines(lines) ==
    {a \in DOMAIN lines :
        lines[a].indent = 1 /\ KeyOf(lines[a].text) = RamenName}

\* C30 (as claimed): for every config map, the written document is well
\* formed and carries the Ramen key as a literal block scalar whose content
\* parses to the embedded configuration as it was, with only
\* drClusterOperator.deploymentAutomationEnabled set to true.
C30_RamenRoundTrip ==
    (entry = "update_config_map_commit"
       /\ pc["update_config_map_commit"] # "start")
      => /\ WellFormed(rcm.serialized)
         /\ Cardinality(RamenLines(rcm.serialized)) = 1
         /\ \A a \in RamenLines(rcm.serialized) :
              /\ Rest(rcm.serialized[a].text) = << "|" >>
              /\ SafeLoad(BlockBelow(rcm.serialized, a))
                   = Put(SafeLoad(rcm.data.ramen), AutomationKey, "true")

\* ------------------------------------------------------ external mode claims
\* the operators whose CSV the external-mode deployment has to see Succeeded
RequiredCsvEvents ==
    IF xm.ocs_version >= VERSION_4_9
    THEN {"csv_succeeded_odf", "csv_succeeded_ocs"}
    ELSE {"csv_succeeded_ocs"}

\* the steps that precede the creation of the external StorageCluster, in
\* the order they have to happen
ExternalSteps ==
    << "run_exporter_script", "get_admin_keyring", "create_external_secret",
       "oc_create_external_storagecluster" >>

\* C31: in deploy_with_external_mode the external StorageCluster is created
\* only after every required operator CSV reached Succeeded, then the exporter
\* script ran and its output was stored, then the admin keyring was fetched,
\* then the external secret was created; the health check of the external
\* cluster runs only after the StorageCluster was created.
C31_ExternalModeOrder ==
    entry = "deploy_with_external_mode"
      => /\ \A k \in Evs("oc_create_external_storagecluster") :
              /\ xm.written
              /\ \A s \in 1 .. 3 :
                    \E a \in Evs(ExternalSteps[s]) :
                      /\ \A b \in Evs(ExternalSteps[s + 1]) : a < b
                      /\ a < k
              /\ \A c \in RequiredCsvEvents :
                    \E a \in Evs(c) :
                      \A b \in Evs("run_exporter_script") : a < b
         /\ \A k \in Evs("external_cluster_health_check") :
              /\ Before(k, "oc_create_external_storagecluster")
              /\ "StorageCluster" \in resources[cur_index]

C31_Witness ==
    /\ entry = "deploy_with_external_mode"
    /\ pc["deploy_with_external_mode"] = "returned"
    /\ xm.ocs_version >= VERSION_4_9
    /\ Evs("external_cluster_health_check") # {}
    /\ Evs("csv_succeeded_odf") # {}

\* C32: get_external_cluster_details writes
\* config.EXTERNAL_MODE["external_cluster_details"] exactly when the exporter
\* script ran and exited with code 0, and the value written is the base64
\* text of its stdout; when the script exits with another code,
\* ExternalClusterExporterRunFailed is raised and the stored value stays as
\* it was.
C32_DetailsWrittenOnSuccess ==
    (entry = "get_external_cluster_details"
       /\ Finished("get_external_cluster_details"))
      => /\ xm.written <=> (xm.ran /\ xm.retcode = 0)
         /\ xm.written =>
              /\ xm.external_cluster_details = encode(xm.out)
              /\ pc["get_external_cluster_details"] = "returned"
         /\ ~ xm.written => xm.external_cluster_details = xm.before
         /\ (xm.ran /\ xm.retcode # 0) =>
              /\ pc["get_external_cluster_details"] = "raised"
              /\ exc["get_external_cluster_details"]
                   = "ExternalClusterExporterRunFailed"

C32_Witness ==
    /\ entry = "get_external_cluster_details"
    /\ pc["get_external_cluster_details"] = "returned"
    /\ xm.out = << 123, 97, 125 >>
    /\ xm.before # <<>>
    /\ xm.external_cluster_details = << "e", "2", "F", "9" >>

\* a failed run of the script leaves the earlier value in place
C32_WitnessFailure ==
    /\ entry = "get_external_cluster_details"
    /\ exc["get_external_cluster_details"] = "ExternalClusterExporterRunFailed"
    /\ xm.before # <<>>

\* ------------------------------------------ setup_persistent_monitoring claims
SpmEnded == Finished("setup_persistent_monitoring")

\* the attempts made so far, the running one included
SpmAttempts ==
    Len(spm.outcomes) + (IF SpmEnded \/ pc["setup_persistent_monitoring"] = "start"
                         THEN 0 ELSE 1)

SpmSafe ==
    entry = "setup_persistent_monitoring"
      => /\ SpmAttempts <= SPM_TRIES
         /\ \A k \in DOMAIN spm.outcomes :
              IF k < Len(spm.outcomes) \/ ~ SpmEnded
              THEN spm.outcomes[k] = "CommandFailed"
              ELSE \/ /\ spm.outcomes[k] = "ok"
                      /\ pc["setup_persistent_monitoring"] = "returned"
                   \/ /\ pc["setup_persistent_monitoring"] = "raised"
                      /\ exc["setup_persistent_monitoring"] = spm.outcomes[k]
                      /\ spm.outcomes[k] # "ok"
                      /\ spm.outcomes[k] = "CommandFailed" => k = SPM_TRIES

\* C33: setup_persistent_monitoring is attempted at most 8 times; another
\* attempt follows only a CommandFailed, any other exception leaves on the
\* attempt that raised it, the 8th CommandFailed reaches the caller, and the
\* call always ends.
C33_RetryBounded ==
    /\ [] SpmSafe
    /\ <> (entry = "setup_persistent_monitoring" => SpmEnded)

C33_Witness ==
    /\ entry = "setup_persistent_monitoring"
    /\ pc["setup_persistent_monitoring"] = "raised"
    /\ exc["setup_persistent_monitoring"] = "CommandFailed"
    /\ Len(spm.outcomes) = SPM_TRIES

\* -------------------------------------------------------- do_deploy_ocs claims
\* the calls of ev made with the context at cluster c
EvsAt(ev, c) == {k \in Evs(ev) : log[k].ctx = c}

\* C34: with skip_ocs_deployment false and every per-cluster deploy
\* succeeding, do_deploy_ocs calls deploy_ocs exactly once for every cluster
\* index but the ACM hub's, with the context at that cluster, and never with
\* the context at the hub; deploy_ocs never runs while the hub is current.
C34_DeployOcsPerNonHubCluster ==
    (entry = "do_deploy_ocs" /\ ~ flags.skip_ocs_deployment)
      => /\ multicluster => EvsAt("deploy_ocs", acm_index) = {}
         /\ (multicluster /\ pc["deploy_ocs"] # "idle") => cur_index # acm_index
         /\ \A c \in Clusters : Cardinality(EvsAt("deploy_ocs", c)) <= 1
         /\ pc["do_deploy_ocs"] \in {"after_reset", "verify_loop", "returned"}
              => \A c \in Clusters :
                   Cardinality(EvsAt("deploy_ocs", c))
                     = IF multicluster /\ c = acm_index THEN 0 ELSE 1

C34_Witness ==
    /\ entry = "do_deploy_ocs"
    /\ ~ flags.skip_ocs_deployment
    /\ pc["do_deploy_ocs"] = "returned"
    /\ nclusters = 3 /\ acm_index = 1
    /\ Cardinality(Evs("deploy_ocs")) = 2

\* C35 (as claimed): in a multicluster run where every per-cluster deploy
\* succeeded and every verification passed, ocs_install_verification ran once
\* for every non-hub cluster index in 0 .. nclusters - 1, with the context at
\* that cluster.
C35_VerificationPerNonHubCluster ==
    (entry = "do_deploy_ocs" /\ ~ flags.skip_ocs_deployment /\ multicluster
       /\ pc["do_deploy_ocs"] = "returned")
      => \A c \in NonHub :
           Cardinality(EvsAt("ocs_install_verification", c)) = 1

\* ------------------------------------------------- disabled components claims
\* C36 (as claimed): for every component other than noobaa that
\* config.COMPONENTS or disable_components disables, the StorageCluster spec
\* submitted carries spec.managedResources.<component>.reconcileStrategy =
\* "ignore", whatever the other flags are, ceph_debug included.
C36_DisabledComponentsIgnored ==
    Composed
      => \A c \in ComponentKeys \ {"noobaa"} :
           (components[c] \/ c \in plan.disable_components)
             => /\ Has(cluster_data, "spec.managedResources")
                /\ OCS_COMPONENTS_MAP[c]
                     \in DOMAIN cluster_data["spec.managedResources"]
                /\ cluster_data["spec.managedResources"]
                     [OCS_COMPONENTS_MAP[c]].reconcileStrategy = "ignore"

\* without ceph_debug the entries of the disabled components are there
C36_WithoutCephDebug ==
    (Composed /\ ~ plan.ceph_debug)
      => \A c \in ComponentKeys \ {"noobaa"} :
           (components[c] \/ c \in plan.disable_components)
             => /\ Has(cluster_data, "spec.managedResources")
                /\ OCS_COMPONENTS_MAP[c]
                     \in DOMAIN cluster_data["spec.managedResources"]

\* ----------------------------------------------------- local storage claims
\* the device-set count the precedence of the claim asks for
ExpectedCount(f) ==
    IF f.lsd_count # <<>> THEN f.lsd_count[1]
    ELSE IF f.platform = "aws" /\ f.lso_type # "aws-ebs" THEN 2
    ELSE IF f.ocs_version >= VERSION_4_7 /\ f.zone_num < 3
            /\ ~ f.arbiter_deployment
    THEN 3
    ELSE BaseTemplate["spec.storageDeviceSets[0].count"]

\* C37: with local_storage set, the device-set count of the composed spec is
\* the configured local_storage_storagedeviceset_count if there is one,
\* else 2 on AWS with a type other than EBS, else 3 under flexible scaling;
\* the device set has portable = false and the LSO storage class, also on a
\* platform with a default storage class of its own.
C37_LsoCountPrecedence ==
    (Composed /\ plan.local_storage)
      => /\ cluster_data["spec.storageDeviceSets[0].count"] = ExpectedCount(plan)
         /\ cluster_data["spec.storageDeviceSets[0].portable"] = FALSE
         /\ cluster_data["spec.storageDeviceSets[0].storageClassName"]
              = "localblock"

C37_Witness ==
    /\ Composed /\ plan.local_storage
    /\ plan.lsd_count = <<1>>
    /\ plan.platform = "aws" /\ plan.lso_type = "aws-i3"
    /\ FlexibleScalingCond(plan)
    /\ DEFAULT_STORAGECLASS(plan) = "gp2"
    /\ cluster_data["spec.storageDeviceSets[0].count"] = 1

\* no configured count: the AWS value beats the flexible-scaling value
C37_WitnessAws ==
    /\ Composed /\ plan.local_storage
    /\ plan.lsd_count = <<>>
    /\ plan.platform = "aws" /\ plan.lso_type = "aws-i3"
    /\ FlexibleScalingCond(plan)
    /\ cluster_data["spec.storageDeviceSets[0].count"] = 2

\* ------------------------------------------------ round-robin claims
\* the zones of the first k nodes of a list of node names
ZonesOfFirst(l, k) == {lt.nodes[l[j]].az : j \in 1 .. k}

WorkerZones == {lt.nodes[n].az : n \in Range(WorkerNodes(lt.nodes))}

\* C38: outside arbiter mode the round-robin loop ends for every assignment
\* of worker nodes to zones, its list holds every worker node exactly once,
\* and for every k the first k nodes of the list lie in min(k, number of
\* zones) distinct zones; so do the nodes that were labelled.
C38_RoundRobinSpread ==
    (entry = "label_and_taint_nodes" /\ ~ lt.arbiter_deployment
       /\ pc["label_and_taint_nodes"] # "start")
      => LET d == Distributed(lt).nodes
         IN /\ Len(d) = Len(WorkerNodes(lt.nodes))
            /\ Range(d) = Range(WorkerNodes(lt.nodes))
            /\ \A k \in 0 .. Len(d) :
                  Cardinality(ZonesOfFirst(d, k))
                    = Min(k, Cardinality(WorkerZones))
            /\ lt.labelled # {}
                  => Cardinality({lt.nodes[n].az : n \in lt.labelled})
                       = Min(ToLabel(lt), Cardinality(WorkerZones))

C38_Witness ==
    /\ entry = "label_and_taint_nodes" /\ ~ lt.arbiter_deployment
    /\ pc["label_and_taint_nodes"] = "returned"
    /\ Len(lt.nodes) = 3
    /\ lt.nodes[1].az = "a" /\ lt.nodes[2].az = "a" /\ lt.nodes[3].az = "b"
    /\ Distributed(lt).nodes = << 1, 3, 2 >>
    /\ lt.labelled = {1, 3}

\* ------------------------------------------------------ destroy_cluster claims
\* C39: on a platform other than IBM Power, destroy_cluster always reaches
\* the destroy of OCP: a failure of uninstall_ocs is logged and swallowed, it
\* does not keep the OCP destroy from running and never reaches the caller.
C39_UninstallFailureSwallowed ==
    (entry = "destroy_cluster" /\ flags.platform # "powervs")
      => /\ Finished("destroy_cluster") => Evs("destroy_ocp") # {}
         /\ pc["destroy_cluster"] = "raised"
              => log[Len(log)].ev = "destroy_ocp"
         /\ \A k \in Evs("uninstall_ocs_failure_logged") :
              /\ pc["destroy_cluster"] \in {"destroy_ocp", "returned", "raised"}
              /\ Finished("destroy_cluster") => \E j \in Evs("destroy_ocp") : k < j

C39_Witness ==
    /\ entry = "destroy_cluster" /\ flags.platform # "powervs"
    /\ pc["destroy_cluster"] = "returned"
    /\ Evs("uninstall_ocs_failure_logged") # {}
    /\ Evs("destroy_ocp") # {}

====
